---- MODULE Spec2Model ----
(***************************************************************************)
(* A model of oneshot.py: the registration session tracker                 *)
(* (process_wpa_supplicant / poll_wpa_supplicant), the artifact record     *)
(* (class Data), the part of the main program that runs one or two         *)
(* registration attempts, the pin generator (class WPSpin) and the scan    *)
(* parser (wifi_scan).                                                     *)
(*                                                                         *)
(* Python str values are TLA+ strings.  The operators below are the str    *)
(* methods the program uses, computed on the characters.                   *)
(***************************************************************************)
EXTENDS Integers, Sequences, FiniteSets, TLC

(***************************************************************************)
(* Bounds of the model.                                                    *)
(***************************************************************************)
\* The longest stream of lines one attempt reads before the stream ends.
MaxLines == 7

(***************************************************************************)
(* str methods.                                                            *)
(***************************************************************************)
\* s[i] of a str, 1-based.
CharAt(s, i) == SubSeq(s, i, i)

\* s.startswith(p)
startswith(s, p) == Len(p) <= Len(s) /\ SubSeq(s, 1, Len(p)) = p

\* The positions at which sub occurs in s.
Occurrences(s, sub) ==
    {i \in 1..(Len(s) - Len(sub) + 1) : SubSeq(s, i, i + Len(sub) - 1) = sub}

\* s.find(sub) + 1: the first position of sub in s, 0 when there is none.
find(s, sub) ==
    LET hits == Occurrences(s, sub)
    IN  IF hits = {} THEN 0 ELSE CHOOSE i \in hits : \A j \in hits : i <= j

\* sub in s
contains(sub, s) == Occurrences(s, sub) # {}

\* s.split(sep, maxsplit); maxsplit = -1 splits at every occurrence.
RECURSIVE split(_, _, _)
split(s, sep, maxsplit) ==
    LET i == find(s, sep)
    IN  IF maxsplit = 0 \/ i = 0
        THEN <<s>>
        ELSE <<SubSeq(s, 1, i - 1)>>
             \o split(SubSeq(s, i + Len(sep), Len(s)), sep, maxsplit - 1)

\* s.replace(old, '') for a one-character old.
RECURSIVE remove(_, _)
remove(s, old) ==
    IF Len(s) = 0 THEN s
    ELSE IF Len(s) = 1 THEN (IF s = old THEN "" ELSE s)
    ELSE LET h == Len(s) \div 2
         IN  remove(SubSeq(s, 1, h), old) \o remove(SubSeq(s, h + 1, Len(s)), old)

LowerCase == "abcdefghijklmnopqrstuvwxyz"
UpperCase == "ABCDEFGHIJKLMNOPQRSTUVWXYZ"

\* s.upper()
RECURSIVE upper(_)
upper(s) ==
    IF Len(s) = 0 THEN s
    ELSE IF Len(s) = 1
         THEN LET k == find(LowerCase, s)
              IN  IF k = 0 THEN s ELSE CharAt(UpperCase, k)
    ELSE LET h == Len(s) \div 2
         IN  upper(SubSeq(s, 1, h)) \o upper(SubSeq(s, h + 1, Len(s)))

\* s.rstrip('\n')
RECURSIVE rstrip_nl(_)
rstrip_nl(s) ==
    IF Len(s) > 0 /\ CharAt(s, Len(s)) = "\n"
    THEN rstrip_nl(SubSeq(s, 1, Len(s) - 1))
    ELSE s

\* The printable ASCII characters in code order: chr(32) .. chr(95) and
\* chr(97) .. chr(126).  chr(96) cannot be written in a TLA+ string and is
\* left out of the model's alphabet.
AsciiLow ==
    " !\"#$%&'()*+,-./0123456789:;<=>?@ABCDEFGHIJKLMNOPQRSTUVWXYZ[\\]^_"
AsciiHigh == "abcdefghijklmnopqrstuvwxyz{|}~"

\* Whether byte b is a character of the model's alphabet, and chr(b).
printable(b) == (32 <= b /\ b <= 95) \/ (97 <= b /\ b <= 126)
chr(b) == IF b <= 95 THEN CharAt(AsciiLow, b - 31) ELSE CharAt(AsciiHigh, b - 96)

HexDigits == "0123456789ABCDEF"

\* int(c, 16) of one character, -1 when c is no hexadecimal digit.
hexval(c) == find(HexDigits, upper(c)) - 1

\* bytes.fromhex(s): <<TRUE, bytes>>, or <<FALSE, <<>>>> for the ValueError
\* (an odd number of digits, or a character that is no hexadecimal digit).
\* The program strips the spaces before the call.
RECURSIVE fromhex(_)
fromhex(s) ==
    IF Len(s) = 0 THEN <<TRUE, <<>>>>
    ELSE IF Len(s) = 1 THEN <<FALSE, <<>>>>
    ELSE LET hi == hexval(CharAt(s, 1))
             lo == hexval(CharAt(s, 2))
             rest == fromhex(SubSeq(s, 3, Len(s)))
         IN  IF hi < 0 \/ lo < 0 \/ ~rest[1]
             THEN <<FALSE, <<>>>>
             ELSE <<TRUE, <<hi * 16 + lo>> \o rest[2]>>

\* bytes.decode('utf-8') on printable ASCII: <<TRUE, text>>.  A byte outside
\* the model's alphabet is reported as the UnicodeDecodeError of a byte that
\* starts no valid sequence; the model's lines carry no such byte.
RECURSIVE decode_utf8(_)
decode_utf8(b) ==
    IF Len(b) = 0 THEN <<TRUE, "">>
    ELSE LET rest == decode_utf8(Tail(b))
         IN  IF ~printable(Head(b)) \/ ~rest[1]
             THEN <<FALSE, "">>
             ELSE <<TRUE, chr(Head(b)) \o rest[2]>>

\* s.strip() of the blanks the program's inputs carry (space, tab, newline).
RECURSIVE strip(_)
strip(s) ==
    IF Len(s) > 0 /\ CharAt(s, 1) \in {" ", "\t", "\n"}
    THEN strip(SubSeq(s, 2, Len(s)))
    ELSE IF Len(s) > 0 /\ CharAt(s, Len(s)) \in {" ", "\t", "\n"}
    THEN strip(SubSeq(s, 1, Len(s) - 1))
    ELSE s

\* s.splitlines() for "\n" line ends: no empty last line after a final "\n".
splitlines(s) ==
    LET parts == split(s, "\n", -1)
    IN  IF parts[Len(parts)] = "" THEN SubSeq(parts, 1, Len(parts) - 1) ELSE parts

\* unit repeated n times (unit * n).
RECURSIVE rep(_, _)
rep(unit, n) ==
    IF n <= 0 THEN ""
    ELSE IF n = 1 THEN unit
    ELSE rep(unit, n \div 2) \o rep(unit, n - n \div 2)

(***************************************************************************)
(* class Data: the artifact record.                                        *)
(***************************************************************************)
\* Data.__init__
Data_init ==
    [pke |-> "", pkr |-> "", e_hash1 |-> "", e_hash2 |-> "",
     authkey |-> "", e_nonce |-> "", wpa_psk |-> "", state |-> ""]

\* clear() that keeps the state tag.
clear_keeps_state(d) == [Data_init EXCEPT !.state = d.state]

\* clear() that keeps the two public keys.
clear_keeps_keys(d) == [Data_init EXCEPT !.pke = d.pke, !.pkr = d.pkr]

\* Data.clear: the record after self.__init__().
clear(d) == Data_init

\* got_all() that forgets e_hash2.
got_all_five(d) ==
    d.pke # "" /\ d.pkr # "" /\ d.e_nonce # "" /\ d.authkey # "" /\ d.e_hash1 # ""

\* Data.got_all, as the truth value the callers test.
got_all(d) ==
    d.pke # "" /\ d.pkr # "" /\ d.e_nonce # "" /\ d.authkey # ""
    /\ d.e_hash1 # "" /\ d.e_hash2 # ""

\* statechange() that stores its second argument.
statechange_swapped(d, old, new) == [d EXCEPT !.state = old]

\* statechange() that sets the state of a record as Data() makes it.
statechange_fresh(d, old, new) == [Data_init EXCEPT !.state = new]

\* statechange(data, old, new)
statechange(d, old, new) == [d EXCEPT !.state = new]

\* get_hex() without .upper().
get_hex_no_upper(line) ==
    LET a == split(line, ":", 3)
    IN  IF Len(a) < 3 THEN <<FALSE, "">>
        ELSE <<TRUE, remove(a[3], " ")>>

\* get_hex(line): <<TRUE, text>>, or <<FALSE, "">> for the IndexError of a[2].
get_hex(line) ==
    LET a == split(line, ":", 3)
    IN  IF Len(a) < 3 THEN <<FALSE, "">>
        ELSE <<TRUE, upper(remove(a[3], " "))>>

\* ord(c) of a character of the model's alphabet.
ord(c) ==
    LET k == find(AsciiLow, c)
    IN  IF k # 0 THEN k + 31 ELSE find(AsciiHigh, c) + 96

\* codecs.decode(s, 'unicode-escape').encode('latin1'): <<TRUE, bytes>>, or
\* <<FALSE, <<>>>> for the UnicodeDecodeError of a truncated escape.  The
\* escapes of the model's lines are \\, \', \" and \xNN; a backslash before
\* any other character of the model's lines stays as it is.
RECURSIVE unicode_escape(_)
unicode_escape(s) ==
    IF Len(s) = 0 THEN <<TRUE, <<>>>>
    ELSE IF CharAt(s, 1) # "\\"
    THEN LET rest == unicode_escape(SubSeq(s, 2, Len(s)))
         IN  IF rest[1] THEN <<TRUE, <<ord(CharAt(s, 1))>> \o rest[2]>>
             ELSE <<FALSE, <<>>>>
    ELSE IF Len(s) = 1 THEN <<FALSE, <<>>>>
    ELSE IF CharAt(s, 2) \in {"\\", "'", "\""}
    THEN LET rest == unicode_escape(SubSeq(s, 3, Len(s)))
         IN  IF rest[1] THEN <<TRUE, <<ord(CharAt(s, 2))>> \o rest[2]>>
             ELSE <<FALSE, <<>>>>
    ELSE IF CharAt(s, 2) = "x"
    THEN IF Len(s) < 4 \/ hexval(CharAt(s, 3)) < 0 \/ hexval(CharAt(s, 4)) < 0
         THEN <<FALSE, <<>>>>
         ELSE LET rest == unicode_escape(SubSeq(s, 5, Len(s)))
              IN  IF rest[1]
                  THEN <<TRUE, <<hexval(CharAt(s, 3)) * 16 + hexval(CharAt(s, 4))>>
                               \o rest[2]>>
                  ELSE <<FALSE, <<>>>>
    ELSE LET rest == unicode_escape(SubSeq(s, 2, Len(s)))
         IN  IF rest[1] THEN <<TRUE, <<ord("\\")>> \o rest[2]>>
             ELSE <<FALSE, <<>>>>

\* The ESSID of a "Trying to ... with" line:
\* codecs.decode(line.split("'")[1], 'unicode-escape').encode('latin1').decode('utf-8')
\* as [exc, text]; exc is "" or the exception raised.
essid_of(line) ==
    LET parts == split(line, "'", -1)
    IN  IF Len(parts) < 2 THEN [exc |-> "IndexError", text |-> ""]
        ELSE LET b == unicode_escape(parts[2])
             IN  IF ~b[1] THEN [exc |-> "UnicodeDecodeError", text |-> ""]
                 ELSE LET t == decode_utf8(b[2])
                      IN  IF ~t[1] THEN [exc |-> "UnicodeDecodeError", text |-> ""]
                          ELSE [exc |-> "", text |-> t[2]]

(***************************************************************************)
(* The mandated lengths of the six artifacts, in hexadecimal digits.       *)
(***************************************************************************)
NonceLen == 16 * 2
PublicKeyLen == 192 * 2
AuthKeyLen == 32 * 2
HashLen == 32 * 2

\* The name of the interface, options.interface (-i).
Interface == "wlan0"

(***************************************************************************)
(* process_wpa_supplicant, in two steps.  classify(line) is the if/elif    *)
(* chain: the branch the line takes and the text the branch computes from  *)
(* the line alone.  process_wpa_supplicant applies the branch to the       *)
(* record and the options.                                                 *)
(***************************************************************************)
Event(branch, arg, exc) == [branch |-> branch, arg |-> arg, exc |-> exc]

\* One "<name> ... hexdump" branch: the field and get_hex(line).
HexEvent(field, line) ==
    LET h == get_hex(line)
    IN  IF h[1] THEN Event(field, h[2], "") ELSE Event(field, "", "IndexError")

\* The ': State: ' branch with the state the line leaves as the new one.
state_line_old(line) ==
    LET args == split(split(line, ": State: ", -1)[2], " -> ", -1)
    IN  IF Len(args) # 2 THEN Event("state", "", "TypeError")
        ELSE Event("state", args[1], "")

\* The ': State: ' branch: statechange(data, *args) takes exactly old and
\* new, the two sides of ' -> '.
state_line(line) ==
    LET args == split(split(line, ": State: ", -1)[2], " -> ", -1)
    IN  IF Len(args) # 2 THEN Event("state", "", "TypeError")
        ELSE Event("state", args[2], "")

\* The test for a "WPS: " line that lets a line with WPS-FAIL in it pass to
\* the tests after it.
wps_line_unless_fail(line) ==
    startswith(line, "WPS: ") /\ ~contains("WPS-FAIL", line)

\* if line.startswith('WPS: '): the line goes to the tests for the lines
\* of the WPS module and to no other.
wps_line(line) == startswith(line, "WPS: ")

classify(line) ==
    IF wps_line(line)
    THEN IF contains("Building Message M", line)
         THEN Event("state", "M" \o split(line, "Building Message M", -1)[2], "")
         ELSE IF contains("Received M", line)
         THEN Event("state", "M" \o split(line, "Received M", -1)[2], "")
         ELSE IF contains("Received WSC_NACK", line)
         THEN Event("state", "WSC_NACK", "")
         ELSE IF contains("Enrollee Nonce", line) /\ contains("hexdump", line)
         THEN HexEvent("e_nonce", line)
         ELSE IF contains("DH own Public Key", line) /\ contains("hexdump", line)
         THEN HexEvent("pkr", line)
         ELSE IF contains("DH peer Public Key", line) /\ contains("hexdump", line)
         THEN HexEvent("pke", line)
         ELSE IF contains("AuthKey", line) /\ contains("hexdump", line)
         THEN HexEvent("authkey", line)
         ELSE IF contains("E-Hash1", line) /\ contains("hexdump", line)
         THEN HexEvent("e_hash1", line)
         ELSE IF contains("E-Hash2", line) /\ contains("hexdump", line)
         THEN HexEvent("e_hash2", line)
         ELSE IF contains("Network Key", line) /\ contains("hexdump", line)
         THEN LET h == get_hex(line)
                  b == fromhex(h[2])
                  t == decode_utf8(b[2])
              IN  IF ~h[1] THEN Event("wpa_psk", "", "IndexError")
                  ELSE IF ~b[1] THEN Event("wpa_psk", "", "ValueError")
                  ELSE IF ~t[1] THEN Event("wpa_psk", "", "UnicodeDecodeError")
                  ELSE Event("wpa_psk", t[2], "")
         ELSE Event("none", "", "")
    ELSE IF contains(": State: ", line)
    THEN state_line(line)
    ELSE IF contains("WPS-FAIL", line)
    THEN Event("state", "WPS-FAIL", "")
    ELSE IF contains("NL80211_CMD_DEL_STATION", line)
    THEN Event("print", "", "")
    ELSE IF contains("Trying to authenticate with", line)
    THEN IF contains("SSID", line)
         THEN LET e == essid_of(line) IN Event("essid", e.text, e.exc)
         ELSE Event("print", "", "")
    ELSE IF contains("Authentication response", line)
    THEN Event("print", "", "")
    ELSE IF contains("Trying to associate with", line)
    THEN IF contains("SSID", line)
         THEN LET e == essid_of(line) IN Event("essid", e.text, e.exc)
         ELSE Event("print", "", "")
    ELSE IF contains("Associated with", line) /\ contains(Interface, line)
    THEN Event("print", "", "")
    ELSE IF contains("EAPOL: txStart", line)
    THEN Event("state", "EAPOL Start", "")
    ELSE IF contains("EAP entering state IDENTITY", line)
    THEN Event("print", "", "")
    ELSE IF contains("using real identity", line)
    THEN Event("print", "", "")
    ELSE Event("none", "", "")

\* The result of one call: the record and the options as the call leaves
\* them, and exc, the exception that ended it ("" when it returned True).
Outcome(d, o, exc) == [data |-> d, options |-> o, exc |-> exc]

\* A hexdump branch without its assert.
StoreUnchecked(d, o, field, value, length) ==
    Outcome([d EXCEPT ![field] = value], o, "")

\* A hexdump branch: the assignment, then the assert on the stored length.
StoreChecked(d, o, field, value, length) ==
    LET d2 == [d EXCEPT ![field] = value]
    IN  Outcome(d2, o, IF Len(value) = length THEN "" ELSE "AssertionError")

\* process_wpa_supplicant(pipe, options, data) on a line that was read
\* (line # ''), given as its event.
process_wpa_supplicant(ev, d, o) ==
    IF ev.exc # "" THEN Outcome(d, o, ev.exc)
    ELSE IF ev.branch = "state" THEN Outcome(statechange(d, d.state, ev.arg), o, "")
    ELSE IF ev.branch = "e_nonce" THEN StoreChecked(d, o, "e_nonce", ev.arg, NonceLen)
    ELSE IF ev.branch = "pkr" THEN StoreChecked(d, o, "pkr", ev.arg, PublicKeyLen)
    ELSE IF ev.branch = "pke" THEN StoreChecked(d, o, "pke", ev.arg, PublicKeyLen)
    ELSE IF ev.branch = "authkey" THEN StoreChecked(d, o, "authkey", ev.arg, AuthKeyLen)
    ELSE IF ev.branch = "e_hash1" THEN StoreChecked(d, o, "e_hash1", ev.arg, HashLen)
    ELSE IF ev.branch = "e_hash2" THEN StoreChecked(d, o, "e_hash2", ev.arg, HashLen)
    ELSE IF ev.branch = "wpa_psk"
    THEN Outcome(statechange([d EXCEPT !.wpa_psk = ev.arg], d.state, "GOT_PSK"), o, "")
    ELSE IF ev.branch = "essid"
    THEN Outcome(d, [o EXCEPT !.essid = <<ev.arg>>], "")
    ELSE Outcome(d, o, "")

\* parse_pixiewps(output): <<TRUE, pin>>, or <<FALSE, "">> for False.
RECURSIVE first_pin(_)
first_pin(lines) ==
    IF Len(lines) = 0 THEN <<FALSE, "">>
    ELSE IF contains("[+]", Head(lines)) /\ contains("WPS", Head(lines))
    THEN LET parts == split(Head(lines), ":", -1)
         IN  <<TRUE, strip(parts[Len(parts)])>>
    ELSE first_pin(Tail(lines))

parse_pixiewps(output) == first_pin(splitlines(output))

(***************************************************************************)
(* The lines wpa_supplicant writes (what pipe.stdout.readline() returns).  *)
(***************************************************************************)
\* "WPS: <tag> - hexdump(len=n): xx xx ..." with n bytes, each written unit.
HexdumpLine(tag, unit, n) ==
    "WPS: " \o tag \o " - hexdump(len=" \o ToString(n) \o "):"
    \o rep(" " \o unit, n) \o "\n"

LNonce == HexdumpLine("Enrollee Nonce", "a0", 16)
LNonceShort == HexdumpLine("Enrollee Nonce", "a0", 15)
LPkr == HexdumpLine("DH own Public Key", "b1", 192)
LPkrLong == HexdumpLine("DH own Public Key", "b1", 193)
LPke == HexdumpLine("DH peer Public Key", "c2", 192)
LPkeShort == HexdumpLine("DH peer Public Key", "c2", 191)
LAuthKey == HexdumpLine("AuthKey", "d3", 32)
LAuthKeyLong == HexdumpLine("AuthKey", "d3", 33)
LHash1 == HexdumpLine("E-Hash1", "e4", 32)
LHash1Short == HexdumpLine("E-Hash1", "e4", 31)
LHash2 == HexdumpLine("E-Hash2", "f5", 32)
LHash2Long == HexdumpLine("E-Hash2", "f5", 64)
\* hunter2
LNetworkKey == "WPS: Network Key - hexdump(len=7): 68 75 6e 74 65 72 32\n"
LNetworkKeyEmpty == "WPS: Network Key - hexdump(len=0):\n"
LNetworkKeyRemoved == "WPS: Network Key - hexdump(len=8): [REMOVED]\n"
LBuildingM1 == "WPS: Building Message M1\n"
LReceivedM2 == "WPS: Received M2\n"
LBuildingM3 == "WPS: Building Message M3\n"
LReceivedM4 == "WPS: Received M4\n"
LNack == "WPS: Received WSC_NACK\n"
LRegistrarNonce == HexdumpLine("Registrar Nonce", "09", 16)
LStateScanning == "wlan0: State: DISCONNECTED -> SCANNING\n"
LStateAssociating == "wlan0: State: SCANNING -> ASSOCIATING\n"
LStateBare == "wlan0: State: COMPLETED\n"
LFail == "wlan0: WPS-FAIL msg=8 config_error=18\n"
LFailDebug == "WPS: Event WPS-FAIL seen\n"
LFailState == "wlan0: State: WPS-FAIL -> DISCONNECTED\n"
LDelStation == "nl80211: Drv Event 20 (NL80211_CMD_DEL_STATION) received for wlan0\n"
LAuthenticate ==
    "wlan0: SME: Trying to authenticate with 00:90:4c:c1:ac:21 (SSID='caf\\x65' freq=2412 MHz)\n"
LAuthResponse == "wlan0: SME: Authentication response: peer=00:90:4c:c1:ac:21 auth_type=0\n"
LAssociate ==
    "wlan0: Trying to associate with 00:90:4c:c1:ac:21 (SSID='caf\\x65' freq=2412 MHz)\n"
LAssociated == "wlan0: Associated with 00:90:4c:c1:ac:21\n"
LTxStart == "EAPOL: txStart\n"
LIdentity == "EAP: EAP entering state IDENTITY\n"
LRealIdentity == "EAP: using real identity - hexdump_ascii(len=29):\n"
LBlank == "\n"

Lines ==
    << LNonce, LNonceShort, LPkr, LPkrLong, LPke, LPkeShort, LAuthKey,
       LAuthKeyLong, LHash1, LHash1Short, LHash2, LHash2Long, LNetworkKey,
       LNetworkKeyEmpty, LNetworkKeyRemoved, LBuildingM1, LReceivedM2, LNack,
       LRegistrarNonce, LStateScanning, LStateAssociating, LStateBare, LFail,
       LDelStation, LAuthenticate, LAuthResponse, LAssociate, LAssociated,
       LTxStart, LIdentity, LRealIdentity, LBlank, LBuildingM3, LReceivedM4,
       LFailDebug, LFailState >>

\* The test for the end of the stream made after the line lost its '\n'.
readline_eof_stripped(line) == rstrip_nl(line) = ""

\* if line == '': the test for the end of the stream, made on the line as
\* readline() returned it.
readline_eof(line) == line = ""

\* The event of each line of Lines: the test for the end of the stream, then
\* line.rstrip('\n'), then the if/elif chain.
Events ==
    [i \in DOMAIN Lines |->
        IF readline_eof(Lines[i]) THEN Event("eof", "", "")
        ELSE classify(rstrip_nl(Lines[i]))]

\* What pixiewps prints (the output of shellcmd(pixiecmd)).
PixieOutputs ==
    << "\n Pixiewps 1.4\n\n [+] WPS pin:    48563710\n\n [*] Time taken: 0 s 18 ms\n",
       "\n Pixiewps 1.4\n\n [-] WPS pin not found!\n\n [*] Time taken: 0 s 84 ms\n",
       "\n Pixiewps 1.4\n\n [+] WPS pin:    <empty>\n\n [*] Time taken: 0 s 20 ms\n",
       "\n Pixiewps 1.4\n\n [+] WPS pin:\n\n [*] Time taken: 0 s 20 ms\n",
       "" >>

PixiePins == [i \in DOMAIN PixieOutputs |-> parse_pixiewps(PixieOutputs[i])]

(***************************************************************************)
(* The state of one run of the program, from data = Data() on.             *)
(***************************************************************************)
VARIABLES
    data,      \* the artifact record (the global data)
    options,   \* the fields of Options the run reads or writes after start-up
    pc,        \* "poll": in the loop of poll_wpa_supplicant, before a read;
               \* "polled": connect() has returned; "crashed": an exception
               \* nobody catches ended the run; "exited": the run is over
    attempt,   \* 1 in the first connect(), 2 in the second
    nread,     \* the lines read from the stream in this attempt
    res,       \* what poll_wpa_supplicant returned (read when pc = "polled")
    exitcode,  \* the exit status of the run, -1 while it runs
    error      \* the exception that ended the run, "" when there is none

vars == <<data, options, pc, attempt, nread, res, exitcode, error>>

(***************************************************************************)
(* The two parts of the program that run before a session starts are      *)
(* modelled further down: the pin generator (class WPSpin) and the scan    *)
(* parser (wifi_scan).  Their state is held here; a session leaves it      *)
(* alone, and they leave the session's state alone.                        *)
(***************************************************************************)
VARIABLES
    call,      \* the last call made on the WPSpin object, with its outcome
    dump,      \* the number of the scan dump wifi_scan reads
    pos,       \* the lines of the dump wifi_scan has handled
    networks,  \* the list wifi_scan builds, and in the end returns
    scanpc     \* "idle": no scan; "lines": in the loop over the lines;
               \* "returned": wifi_scan returned networks; otherwise the
               \* exception that ended it

genvars == <<call>>
scanvars == <<dump, pos, networks, scanpc>>

\* No call made on the generator.
NoCall == [op |-> "none", algo |-> "", mac |-> "", base |-> 0,
           exc |-> "", ret |-> <<>>]

GeneratorIdle == call = NoCall

ScanIdle == dump = 0 /\ pos = 0 /\ networks = <<>> /\ scanpc = "idle"

\* The pin the start-up code settles on when nothing else is known.
DefaultPin == "12345670"

Init ==
    /\ data = Data_init
    /\ \E pixie \in BOOLEAN :
           options = [pin |-> DefaultPin, essid |-> <<>>, pixiemode |-> pixie]
    /\ pc = "poll"
    /\ attempt = 1
    /\ nread = 0
    /\ res = FALSE
    /\ exitcode = -1
    /\ error = ""

\* The loop without its WPS-FAIL test.
loop_breaks_no_fail(d) == d.state = "WSC_NACK" \/ d.state = "GOT_PSK"

\* The tests that leave the loop of poll_wpa_supplicant after a line.
loop_breaks(d) == d.state = "WSC_NACK" \/ d.state = "GOT_PSK" \/ d.state = "WPS-FAIL"

\* poll_wpa_supplicant without its got_all() test.
poll_result_psk_only(d) == IF d.wpa_psk # "" THEN TRUE ELSE FALSE

\* What poll_wpa_supplicant returns once the loop is left.
poll_result(d) == IF d.wpa_psk # "" THEN TRUE ELSE IF got_all(d) THEN TRUE ELSE FALSE

\* One turn of the loop in which readline() returns line i of Lines.  A
\* line taken for the end of the stream makes process_wpa_supplicant return
\* False, which ends the loop.
ReadLine(i) ==
    /\ pc = "poll"
    /\ nread < MaxLines
    /\ LET r == process_wpa_supplicant(Events[i], data, options)
       IN  /\ data' = r.data
           /\ options' = r.options
           /\ nread' = nread + 1
           /\ IF r.exc # ""
              THEN /\ pc' = "crashed"
                   /\ error' = r.exc
                   /\ exitcode' = 1
                   /\ res' = res
              ELSE /\ error' = error
                   /\ exitcode' = exitcode
                   /\ IF Events[i].branch = "eof" \/ loop_breaks(r.data)
                      THEN pc' = "polled" /\ res' = poll_result(r.data)
                      ELSE pc' = "poll" /\ res' = res
    /\ attempt' = attempt

\* One turn of the loop in which readline() returns '': the stream has ended.
ReadEOF ==
    /\ pc = "poll"
    /\ pc' = "polled"
    /\ res' = poll_result(data)
    /\ UNCHANGED <<data, options, attempt, nread, exitcode, error>>

\* KeyboardInterrupt while connect() polls: cleanup, then sys.exit(1).
Interrupt ==
    /\ pc = "poll"
    /\ pc' = "exited"
    /\ exitcode' = 1
    /\ UNCHANGED <<data, options, attempt, nread, res, error>>

\* After the first connect(): a PSK was captured.
ExitWithPsk ==
    /\ pc = "polled" /\ attempt = 1
    /\ data.wpa_psk # ""
    /\ pc' = "exited"
    /\ exitcode' = 0
    /\ UNCHANGED <<data, options, attempt, nread, res, error>>

\* After the first connect(): no PSK, all six artifacts and pixie mode.
\* pixiewps prints output k; a pin in it starts the second connect(), and
\* without one the script reaches its last statement, sys.exit(1).
RunPixiewps(k) ==
    /\ pc = "polled" /\ attempt = 1
    /\ data.wpa_psk = ""
    /\ got_all(data) /\ options.pixiemode
    /\ LET a == PixiePins[k]
       IN  IF a[1] /\ a[2] # "" /\ a[2] # "<empty>"
           THEN /\ options' = [options EXCEPT !.pin = a[2], !.pixiemode = FALSE]
                /\ data' = clear(data)
                /\ attempt' = 2
                /\ nread' = 0
                /\ pc' = "poll"
                /\ exitcode' = exitcode
           ELSE /\ pc' = "exited"
                /\ exitcode' = 1
                /\ UNCHANGED <<data, options, attempt, nread>>
    /\ UNCHANGED <<res, error>>

\* After the first connect(): pixie mode without the six artifacts.
NotEnoughData ==
    /\ pc = "polled" /\ attempt = 1
    /\ data.wpa_psk = ""
    /\ ~(got_all(data) /\ options.pixiemode)
    /\ options.pixiemode
    /\ pc' = "exited"
    /\ exitcode' = 1
    /\ UNCHANGED <<data, options, attempt, nread, res, error>>

\* After the first connect(): no PSK and no pixie mode; the script reaches
\* its last statement, sys.exit(1).
EndOfScript ==
    /\ pc = "polled" /\ attempt = 1
    /\ data.wpa_psk = ""
    /\ ~(got_all(data) /\ options.pixiemode)
    /\ ~options.pixiemode
    /\ pc' = "exited"
    /\ exitcode' = 1
    /\ UNCHANGED <<data, options, attempt, nread, res, error>>

\* The end of the second connect() with one more connect() when no PSK was
\* captured.
SecondExit_retries ==
    /\ pc = "polled" /\ attempt = 2
    /\ IF data.wpa_psk # ""
       THEN /\ pc' = "exited" /\ exitcode' = 0
            /\ UNCHANGED <<data, attempt, nread>>
       ELSE /\ pc' = "poll" /\ exitcode' = exitcode
            /\ data' = clear(data) /\ attempt' = attempt + 1 /\ nread' = 0
    /\ UNCHANGED <<options, res, error>>

\* After the second connect(): sys.exit(0) with a PSK, sys.exit(1) without.
SecondExit ==
    /\ pc = "polled" /\ attempt = 2
    /\ pc' = "exited"
    /\ exitcode' = IF data.wpa_psk # "" THEN 0 ELSE 1
    /\ UNCHANGED <<data, options, attempt, nread, res, error>>

Next ==
    \/ \E i \in DOMAIN Lines : ReadLine(i) /\ UNCHANGED <<genvars, scanvars>>
    \/ ReadEOF /\ UNCHANGED <<genvars, scanvars>>
    \/ Interrupt /\ UNCHANGED <<genvars, scanvars>>
    \/ ExitWithPsk /\ UNCHANGED <<genvars, scanvars>>
    \/ \E k \in DOMAIN PixieOutputs :
           RunPixiewps(k) /\ UNCHANGED <<genvars, scanvars>>
    \/ NotEnoughData /\ UNCHANGED <<genvars, scanvars>>
    \/ EndOfScript /\ UNCHANGED <<genvars, scanvars>>
    \/ SecondExit /\ UNCHANGED <<genvars, scanvars>>

\* The program starts a session with no call made on the generator and no
\* scan in progress.
InitSession == Init /\ GeneratorIdle /\ ScanIdle

Spec == InitSession /\ [][Next]_<<vars, genvars, scanvars>>

(***************************************************************************)
(* What the properties below say about the lines, stated from how the      *)
(* lines were built and not from how the program reads them.               *)
(***************************************************************************)
\* The position in Lines of a line.
LineNo(l) == CHOOSE i \in DOMAIN Lines : Lines[i] = l

\* The six pixie artifacts and the length each must have, in bytes.
PixieFields == {"e_nonce", "pkr", "pke", "authkey", "e_hash1", "e_hash2"}
MandatedBytes ==
    [e_nonce |-> 16, pkr |-> 192, pke |-> 192, authkey |-> 32,
     e_hash1 |-> 32, e_hash2 |-> 32]

\* The hexdump lines of Lines for the six artifacts: the field the tag of the
\* line names, the byte the payload repeats (upper-cased) and how many bytes.
Hexdumps ==
    { [line |-> LNonce, field |-> "e_nonce", byte |-> "A0", bytes |-> 16],
      [line |-> LNonceShort, field |-> "e_nonce", byte |-> "A0", bytes |-> 15],
      [line |-> LPkr, field |-> "pkr", byte |-> "B1", bytes |-> 192],
      [line |-> LPkrLong, field |-> "pkr", byte |-> "B1", bytes |-> 193],
      [line |-> LPke, field |-> "pke", byte |-> "C2", bytes |-> 192],
      [line |-> LPkeShort, field |-> "pke", byte |-> "C2", bytes |-> 191],
      [line |-> LAuthKey, field |-> "authkey", byte |-> "D3", bytes |-> 32],
      [line |-> LAuthKeyLong, field |-> "authkey", byte |-> "D3", bytes |-> 33],
      [line |-> LHash1, field |-> "e_hash1", byte |-> "E4", bytes |-> 32],
      [line |-> LHash1Short, field |-> "e_hash1", byte |-> "E4", bytes |-> 31],
      [line |-> LHash2, field |-> "e_hash2", byte |-> "F5", bytes |-> 32],
      [line |-> LHash2Long, field |-> "e_hash2", byte |-> "F5", bytes |-> 64] }

\* The upper-cased, space-stripped payload of a hexdump line.
Payload(h) == rep(h.byte, h.bytes)

\* Each hexdump line with its position in Lines and its payload.
HexdumpFacts ==
    { [no |-> LineNo(h.line), field |-> h.field, bytes |-> h.bytes,
       payload |-> Payload(h)] : h \in Hexdumps }

RightLength == {h \in HexdumpFacts : h.bytes = MandatedBytes[h.field]}
WrongLength == {h \in HexdumpFacts : h.bytes # MandatedBytes[h.field]}

\* All six pixie artifacts of a record are non-empty.
AllSix(d) == \A f \in PixieFields : d[f] # ""

\* The six pixie artifacts are the same in two records.
SameSix(d, e) == \A f \in PixieFields : d[f] = e[f]

TerminalTags == {"WSC_NACK", "WPS-FAIL", "GOT_PSK"}

(***************************************************************************)
(* C1.  When the loop of poll_wpa_supplicant is left, it reports success   *)
(* if and only if the PSK is non-empty or all six pixie artifacts are      *)
(* non-empty; six artifacts followed by WSC_NACK is a success, WPS-FAIL    *)
(* with only some of the six and no PSK is a failure.                      *)
(***************************************************************************)
C1_SuccessIffPskOrAllSix ==
    pc = "polled" => (res <=> (data.wpa_psk # "" \/ AllSix(data)))

\* Six artifacts, then WSC_NACK: reported as a success.
C1_Witness ==
    /\ pc = "polled" /\ data.state = "WSC_NACK"
    /\ AllSix(data) /\ data.wpa_psk = "" /\ res

(***************************************************************************)
(* C2.  Once a line leaves the state tag at WSC_NACK, WPS-FAIL or GOT_PSK  *)
(* the attempt ends: the loop is never at a read with such a tag, and no   *)
(* step of the same attempt reads a line or changes the record.            *)
(***************************************************************************)
C2_TerminalEndsAttempt ==
    [][ /\ pc' = "poll" => data'.state \notin TerminalTags
        /\ (data.state \in TerminalTags /\ attempt' = attempt)
               => (data' = data /\ nread' = nread) ]_vars

\* WPS-FAIL ended the attempt while the stream could still deliver lines.
C2_Witness ==
    /\ pc = "polled" /\ data.state = "WPS-FAIL" /\ nread < MaxLines

(***************************************************************************)
(* C3.  A hexdump line for one of the six artifacts whose payload has not  *)
(* the mandated length fails with an error; no later line is processed and *)
(* no success is reported: the run ends there with a non-zero status.      *)
(***************************************************************************)
C3_WrongLengthAborts ==
    [][ /\ pc # "crashed"
        /\ \A h \in WrongLength :
               ReadLine(h.no)
                   => /\ pc' = "crashed" /\ error' = "AssertionError"
                      /\ exitcode' = 1 /\ res' = res ]_vars

\* A 15-byte Enrollee Nonce ended the run at the first line of the stream.
C3_Witness ==
    /\ pc = "crashed" /\ error = "AssertionError"
    /\ Len(data.e_nonce) = 30

(***************************************************************************)
(* C4.  A wrong-length artifact value is never kept: in every state each   *)
(* of the six fields is empty or has its mandated length.                  *)
(***************************************************************************)
C4_NoWrongLengthKept ==
    \A f \in PixieFields :
        data[f] = "" \/ Len(data[f]) = 2 * MandatedBytes[f]

(***************************************************************************)
(* C5.  A correctly sized hexdump line for one of the six artifacts stores *)
(* the upper-cased, space-stripped payload in the field of its tag and     *)
(* changes nothing else (state tag, PSK, the other five fields, options).  *)
(***************************************************************************)
C5_HexdumpStoresOneField ==
    [][ \A h \in RightLength :
            ReadLine(h.no)
                => /\ data' = [data EXCEPT ![h.field] = h.payload]
                   /\ Len(data'[h.field]) = 2 * MandatedBytes[h.field]
                   /\ options' = options
                   /\ pc' = "poll" ]_vars

\* The peer public key was stored as pke after an M2, the tag still M2.
C5_Witness ==
    /\ data.pke = rep("C2", 192) /\ data.pkr = "" /\ data.e_nonce = ""
    /\ data.state = "M2" /\ pc = "poll"

(***************************************************************************)
(* C6.  "WPS: Building Message M<N>" and "WPS: Received M<N>" set the      *)
(* state tag to M<N> and change nothing else.                              *)
(***************************************************************************)
\* The message lines of Lines and the number each names.
Messages ==
    { [no |-> LineNo(LBuildingM1), tag |-> "M1"],
      [no |-> LineNo(LReceivedM2), tag |-> "M2"],
      [no |-> LineNo(LBuildingM3), tag |-> "M3"],
      [no |-> LineNo(LReceivedM4), tag |-> "M4"] }

C6_MessageSetsTagOnly ==
    [][ \A m \in Messages :
            ReadLine(m.no)
                => /\ data' = [data EXCEPT !.state = m.tag]
                   /\ options' = options
                   /\ pc' = "poll" ]_vars

\* M1 was built after artifacts had been captured; they are still there.
C6_Witness ==
    /\ data.state = "M1" /\ data.e_nonce = rep("A0", 16)
    /\ data.authkey = rep("D3", 32) /\ pc = "poll"

(***************************************************************************)
(* C7.  A Network Key hexdump line with valid hex of valid UTF-8 text, of  *)
(* any length, sets the PSK to the text and the tag to GOT_PSK, leaves the *)
(* six artifacts unchanged and ends the session as a success.              *)
(***************************************************************************)
NetworkKeys ==
    { [no |-> LineNo(LNetworkKey), text |-> "hunter2"],
      [no |-> LineNo(LNetworkKeyEmpty), text |-> ""] }

C7_NetworkKeySucceeds ==
    [][ \A k \in NetworkKeys :
            ReadLine(k.no)
                => /\ data'.wpa_psk = k.text /\ data'.state = "GOT_PSK"
                   /\ SameSix(data', data)
                   /\ pc' = "polled" /\ res' = TRUE ]_vars

(***************************************************************************)
(* C8.  The stream ends before the tag is WSC_NACK, WPS-FAIL or GOT_PSK.   *)
(***************************************************************************)
\* The step in which readline() returns '': the loop is left without a read.
StreamEnds == pc = "poll" /\ pc' # "poll" /\ nread' = nread /\ exitcode' = exitcode

\* C8 as stated: the loop ends without reading again and the attempt is
\* reported as a failure.
C8_EndOfStreamFails ==
    [][ StreamEnds => (pc' = "polled" /\ data' = data /\ res' = FALSE) ]_vars

\* C8 amended: the loop ends without reading again and without a crash; the
\* attempt is reported as a failure unless all six pixie artifacts were
\* captured before the stream ended, and then as a success.
C8_EndOfStreamFailsUnlessAllSix ==
    [][ StreamEnds
            => /\ pc' = "polled" /\ error' = "" /\ data' = data
               /\ data.state \notin TerminalTags
               /\ res' = AllSix(data) ]_vars

\* The stream ended after an M2 with one artifact: reported as a failure.
C8_Witness ==
    /\ pc = "polled" /\ data.state = "M2" /\ data.e_nonce # ""
    /\ ~AllSix(data) /\ ~res

(***************************************************************************)
(* C9.  At the start of every attempt, before any line is processed, the   *)
(* record is in its initial state, for a new record and after clear().     *)
(***************************************************************************)
AttemptStarts == pc = "poll" /\ nread = 0

AllEmpty(d) == d.wpa_psk = "" /\ \A f \in PixieFields : d[f] = ""

\* C9 as stated: the state tag is INIT.
C9_StartsAtInit == AttemptStarts => (data.state = "INIT" /\ AllEmpty(data))

\* C9 amended: the state tag is the empty string.
C9_StartsEmpty == AttemptStarts => (data.state = "" /\ AllEmpty(data))

\* The second attempt is about to read its first line.
C9_Witness == AttemptStarts /\ attempt = 2

(***************************************************************************)
(* C10.  The second attempt starts from a record equal to the initial one, *)
(* and nothing of the first attempt is visible in it: every artifact, PSK  *)
(* or tag the record holds was captured from a line of the second attempt, *)
(* and so was its success.                                                 *)
(***************************************************************************)
\* How many of the six artifacts and the PSK a record holds.
Captured(d) ==
    Cardinality({f \in PixieFields : d[f] # ""}) + (IF d.wpa_psk # "" THEN 1 ELSE 0)

C10_SecondAttemptIsFresh ==
    attempt = 2
        => /\ nread = 0 => (data.state = "" /\ AllEmpty(data))
           /\ Captured(data) <= nread
           /\ data.state # "" => nread >= 1
           /\ (pc = "polled" /\ res) => nread >= 1

\* The second attempt captured a PSK of its own.
C10_Witness ==
    /\ attempt = 2 /\ pc = "polled" /\ res
    /\ data.wpa_psk = "hunter2" /\ ~AllSix(data)

(***************************************************************************)
(* The pin generator (class WPSpin).                                       *)
(*                                                                         *)
(* A Python int has no width: a 48-bit address does not fit the integers   *)
(* of the checker, so an int n >= 0 is held as the pair of n \div 2^24 and *)
(* n % 2^24.  The pair is exact for every n below 2^55.                    *)
(***************************************************************************)
TwoTo24 == 16777216

Big(hi, lo) == [hi |-> hi, lo |-> lo]

\* The int n of the checker as a Python int.
norm(n) == Big(n \div TwoTo24, n % TwoTo24)

\* A call that returned v, and a call that raised e.
Return(v) == [exc |-> "", val |-> v]

Raise(e) == [exc |-> e, val |-> <<>>]

\* The value of a string of hexadecimal digits of either case, the first
\* digit the most significant; 0 for the empty string.
RECURSIVE hexint(_)
hexint(s) ==
    IF s = "" THEN 0
    ELSE hexint(SubSeq(s, 1, Len(s) - 1)) * 16 + hexval(CharAt(s, Len(s)))

\* int(s, 16) for a string of letters, digits and punctuation: ValueError
\* for the empty string and for a string with a character that is no
\* hexadecimal digit.  (The prefix 0x, the sign, the underscore and the
\* blanks int() also takes are outside the strings the model feeds.)
int16(s) ==
    IF s = "" \/ \E i \in 1..Len(s) : hexval(CharAt(s, i)) < 0
    THEN Raise("ValueError")
    ELSE LET n == Len(s)
             cut == IF n > 6 THEN n - 6 ELSE 0
         IN  Return(Big(hexint(SubSeq(s, 1, cut)), hexint(SubSeq(s, cut + 1, n))))

\* mac.replace(':', '').replace('-', '').replace('.', '')
unseparated(mac) == remove(remove(remove(mac, ":"), "-"), ".")

\* WPSpin._parseMAC
parseMAC(mac) == int16(unseparated(mac))

\* _parseOUI reading the last six characters in place of the first six.
parseOUI_last_six(mac) ==
    LET s == unseparated(mac)
        r == int16(SubSeq(s, IF Len(s) < 6 THEN 1 ELSE Len(s) - 5, Len(s)))
    IN  IF r.exc # "" THEN r ELSE Return(r.val.lo)

\* WPSpin._parseOUI: int(mac[:6], 16), a number below 2^24.
parseOUI(mac) ==
    LET s == unseparated(mac)
        r == int16(SubSeq(s, 1, IF Len(s) < 6 THEN Len(s) ELSE 6))
    IN  IF r.exc # "" THEN r ELSE Return(r.val.lo)

\* The while loop of WPSpin.checksum: two digits of pin a turn.  int(pin / 10)
\* is pin \div 10: the quotient of the float division is exact enough for
\* every pin below 2^53.
RECURSIVE checksum_loop(_, _)
checksum_loop(pin, accum) ==
    IF pin = 0 THEN accum
    ELSE LET a1 == accum + 3 * (pin % 10)
             p1 == pin \div 10
             a2 == a1 + (p1 % 10)
             p2 == p1 \div 10
         IN  checksum_loop(p2, a2)

\* The sum of the loop without its complement to ten.
checksum_plain_sum(pin) == checksum_loop(pin, 0) % 10

\* WPSpin.checksum
checksum(pin) == (10 - (checksum_loop(pin, 0) % 10)) % 10

\* str(n) for an int n >= 0.
RECURSIVE str(_)
str(n) ==
    IF n < 10 THEN CharAt("0123456789", n + 1)
    ELSE str(n \div 10) \o CharAt("0123456789", (n % 10) + 1)

\* int(s) for a string of decimal digits.
RECURSIVE int10(_)
int10(s) ==
    IF s = "" THEN 0
    ELSE int10(SubSeq(s, 1, Len(s) - 1)) * 10
         + (find("0123456789", CharAt(s, Len(s))) - 1)

\* s.zfill(width) for a string without a sign.
zfill(s, width) ==
    IF Len(s) >= width THEN s ELSE rep("0", width - Len(s)) \o s

\* hex(n).split('x')[-1].upper() for an int n of the checker.
RECURSIVE tohex(_)
tohex(n) ==
    IF n < 16 THEN CharAt(HexDigits, n + 1)
    ELSE tohex(n \div 16) \o CharAt(HexDigits, (n % 16) + 1)

\* hex(mac).split('x')[-1].upper() for a Python int.
hex(mac) ==
    IF mac.hi = 0 THEN tohex(mac.lo)
    ELSE tohex(mac.hi) \o zfill(tohex(mac.lo), 6)

\* a ^ b for two ints a, b >= 0.
RECURSIVE xor(_, _)
xor(a, b) ==
    IF a = 0 THEN b
    ELSE IF b = 0 THEN a
    ELSE 2 * xor(a \div 2, b \div 2) + ((a + b) % 2)

\* mac + 1
plus1(mac) ==
    IF mac.lo + 1 = TwoTo24 THEN Big(mac.hi + 1, 0) ELSE Big(mac.hi, mac.lo + 1)

\* pin % m for a Python int below 2^32 (the product stays below 2^31).
mod(pin, m) == ((pin.hi * (TwoTo24 % m)) + pin.lo) % m

\* pin24 with the mask of pin28.
pin24_wide_mask(mac) == Big(mac.hi % 16, mac.lo)

\* WPSpin.pin24: mac & 0xFFFFFF
pin24(mac) == Big(0, mac.lo)

\* WPSpin.pin28: mac & 0xFFFFFFF
pin28(mac) == Big(mac.hi % 16, mac.lo)

\* WPSpin.pin32: mac % 0x100000000
pin32(mac) == Big(mac.hi % 256, mac.lo)

\* WPSpin.pinDLink; int(10e6) is 10000000 and int(10e5) is 1000000.
pinDLink(mac) ==
    LET nic == mac.lo
        p1 == xor(nic, 5614165)
        n == p1 % 16
        p2 == xor(p1, n * 16 + n * 256 + n * 4096 + n * 65536 + n * 1048576)
        p3 == p2 % 10000000
    IN  norm(IF p3 < 1000000 THEN p3 + ((p3 % 9) * 1000000) + 1000000 ELSE p3)

\* pinDLink1 computed on the address itself.
pinDLink1_same_address(mac) == pinDLink(mac)

\* WPSpin.pinDLink1
pinDLink1(mac) == pinDLink(plus1(mac))

\* The list b of pinASUS and pinAirocon, counted from 1: the six bytes of
\* the first twelve digits of the zero-filled hex(mac).
mac_bytes(mac) ==
    LET s == zfill(hex(mac), 12)
    IN  [i \in 1..6 |-> hexint(SubSeq(s, 2 * i - 1, 2 * i))]

\* WPSpin.pinASUS: the int of the seven numbers written one after another.
pinASUS(mac) ==
    LET b == mac_bytes(mac)
        digit(i) == (b[(i % 6) + 1] + b[6])
                    % (10 - ((i + b[2] + b[3] + b[4] + b[5] + b[6]) % 7))
        pin == str(digit(0)) \o str(digit(1)) \o str(digit(2)) \o str(digit(3))
               \o str(digit(4)) \o str(digit(5)) \o str(digit(6))
    IN  norm(int10(pin))

\* WPSpin.pinAirocon
pinAirocon(mac) ==
    LET b == mac_bytes(mac)
    IN  norm(((b[1] + b[2]) % 10)
             + ((b[6] + b[1]) % 10) * 10
             + ((b[5] + b[6]) % 10) * 100
             + ((b[4] + b[5]) % 10) * 1000
             + ((b[3] + b[4]) % 10) * 10000
             + ((b[2] + b[3]) % 10) * 100000
             + ((b[1] + b[2]) % 10) * 1000000)

ALGO_MAC == 0
ALGO_EMPTY == 1
ALGO_STATIC == 2

\* self.algos, in the order __init__ fills it.
algos == <<
    [id |-> "pin24", mode |-> ALGO_MAC],
    [id |-> "pin28", mode |-> ALGO_MAC],
    [id |-> "pin32", mode |-> ALGO_MAC],
    [id |-> "pinDLink", mode |-> ALGO_MAC],
    [id |-> "pinDLink1", mode |-> ALGO_MAC],
    [id |-> "pinASUS", mode |-> ALGO_MAC],
    [id |-> "pinAirocon", mode |-> ALGO_MAC],
    [id |-> "pinEmpty", mode |-> ALGO_EMPTY],
    [id |-> "pinCisco", mode |-> ALGO_STATIC],
    [id |-> "pinBrcm1", mode |-> ALGO_STATIC],
    [id |-> "pinBrcm2", mode |-> ALGO_STATIC],
    [id |-> "pinBrcm3", mode |-> ALGO_STATIC],
    [id |-> "pinBrcm4", mode |-> ALGO_STATIC],
    [id |-> "pinBrcm5", mode |-> ALGO_STATIC],
    [id |-> "pinBrcm6", mode |-> ALGO_STATIC],
    [id |-> "pinAirc1", mode |-> ALGO_STATIC],
    [id |-> "pinAirc2", mode |-> ALGO_STATIC],
    [id |-> "pinDSL2740R", mode |-> ALGO_STATIC],
    [id |-> "pinRealtek1", mode |-> ALGO_STATIC],
    [id |-> "pinRealtek2", mode |-> ALGO_STATIC],
    [id |-> "pinRealtek3", mode |-> ALGO_STATIC],
    [id |-> "pinUpvel", mode |-> ALGO_STATIC],
    [id |-> "pinUR814AC", mode |-> ALGO_STATIC],
    [id |-> "pinUR825AC", mode |-> ALGO_STATIC],
    [id |-> "pinOnlime", mode |-> ALGO_STATIC],
    [id |-> "pinEdimax", mode |-> ALGO_STATIC],
    [id |-> "pinThomson", mode |-> ALGO_STATIC],
    [id |-> "pinHG532x", mode |-> ALGO_STATIC],
    [id |-> "pinH108L", mode |-> ALGO_STATIC],
    [id |-> "pinONO", mode |-> ALGO_STATIC] >>

\* The value of the lambda registered for an ALGO_STATIC id.
static_pin ==
    "pinCisco" :> 1234567
    @@ "pinBrcm1" :> 2017252
    @@ "pinBrcm2" :> 4626484
    @@ "pinBrcm3" :> 7622990
    @@ "pinBrcm4" :> 6232714
    @@ "pinBrcm5" :> 1086411
    @@ "pinBrcm6" :> 3195719
    @@ "pinAirc1" :> 3043203
    @@ "pinAirc2" :> 7141225
    @@ "pinDSL2740R" :> 6817554
    @@ "pinRealtek1" :> 9566146
    @@ "pinRealtek2" :> 9571911
    @@ "pinRealtek3" :> 4856371
    @@ "pinUpvel" :> 2085483
    @@ "pinUR814AC" :> 4397768
    @@ "pinUR825AC" :> 529417
    @@ "pinOnlime" :> 9995604
    @@ "pinEdimax" :> 3561153
    @@ "pinThomson" :> 6795814
    @@ "pinHG532x" :> 3425928
    @@ "pinH108L" :> 9422988
    @@ "pinONO" :> 9575521

\* The ids registered in self.algos.
algo_ids == {algos[i].id : i \in DOMAIN algos}

\* self.algos[algo]['gen'](mac) for a registered id other than pinEmpty.
gen(algo, mac) ==
    CASE algo = "pin24" -> pin24(mac)
      [] algo = "pin28" -> pin28(mac)
      [] algo = "pin32" -> pin32(mac)
      [] algo = "pinDLink" -> pinDLink(mac)
      [] algo = "pinDLink1" -> pinDLink1(mac)
      [] algo = "pinASUS" -> pinASUS(mac)
      [] algo = "pinAirocon" -> pinAirocon(mac)
      [] OTHER -> norm(static_pin[algo])

\* generate() without the zero fill of its last line.
generate_no_zfill(algo, mac) ==
    LET m == parseMAC(mac)
    IN  IF m.exc # "" THEN m
        ELSE IF algo \notin algo_ids THEN Raise("WPSException")
        ELSE IF algo = "pinEmpty" THEN Return("")
        ELSE LET pin == mod(gen(algo, m.val), 10000000)
             IN  Return(str(pin) \o str(checksum(pin)))

\* generate() with an id that is not registered taken for pin24.
generate_default_algo(algo, mac) ==
    LET m == parseMAC(mac)
    IN  IF m.exc # "" THEN m
        ELSE IF algo = "pinEmpty" THEN Return("")
        ELSE LET known == IF algo \in algo_ids THEN algo ELSE "pin24"
                 pin == mod(gen(known, m.val), 10000000)
             IN  Return(zfill(str(pin) \o str(checksum(pin)), 8))

\* generate() without its early return for pinEmpty, the empty string
\* taken for 0.
generate_empty_checksummed(algo, mac) ==
    LET m == parseMAC(mac)
    IN  IF m.exc # "" THEN m
        ELSE IF algo \notin algo_ids THEN Raise("WPSException")
        ELSE LET pin == IF algo = "pinEmpty" THEN 0
                        ELSE mod(gen(algo, m.val), 10000000)
             IN  Return(zfill(str(pin) \o str(checksum(pin)), 8))

\* WPSpin.generate.  The lambda of pinEmpty returns '' whatever the address.
generate(algo, mac) ==
    LET m == parseMAC(mac)
    IN  IF m.exc # "" THEN m
        ELSE IF algo \notin algo_ids THEN Raise("WPSException")
        ELSE IF algo = "pinEmpty" THEN Return("")
        ELSE LET pin == mod(gen(algo, m.val), 10000000)
             IN  Return(zfill(str(pin) \o str(checksum(pin)), 8))

\* The dict algorithms of suggest(), in the order it is written: for each id
\* the members of its tuple.
algorithms == <<
    [id |-> "pin24", oui |-> {
        3318, 5329, 7391, 7967, 8821, 8951, 9819, 9934, 26187, 40998, 45068,
        57376, 311149, 528501, 555596, 558651, 941390, 1080303, 1354211,
        1358184, 1365581, 1867493, 2099437, 2108353, 2150192, 2631773,
        2762845, 3180336, 3322588, 3435475, 3455642, 3676006, 4213251,
        5021439, 5041630, 5135694, 5269488, 6048937, 6071197, 6091947,
        6431549, 6438116, 6438399, 6443988, 6444444, 6450131, 6454622,
        6461119, 6465764, 6469254, 6471791, 6473247, 6473492, 6474664,
        6475198, 6482043, 6559472, 6582274, 6862543, 6954343, 6955837,
        6957149, 6962687, 6968276, 6968732, 6974419, 6978910, 6985407,
        6990052, 6996079, 6997535, 6997780, 6998952, 6999486, 7000414,
        7000423, 7478631, 7480125, 7486692, 7486975, 7492564, 7493020,
        7498707, 7503198, 7509695, 7514340, 7520367, 7521823, 7522068,
        7523240, 7523774, 7524702, 7530619, 7891593, 7900663, 8396546,
        8702386, 8971179, 9329998, 9475300, 9496250, 10000337, 10548161,
        11151453, 11552890, 11580124, 11683580, 11834446, 12325889,
        12383877, 12888093, 13122101, 13134983, 13393230, 13524302,
        13921884, 13942655, 14183657, 14216087, 14446916, 14696758,
        14732110, 14827830, 14828534, 14974201, 15256877, 15345757,
        15475517, 15483894, 15518512, 15614966, 15905500, 16031731,
        16259687, 16302225, 16306449, 16545046, 16577832, 16708904}],
    [id |-> "pin28", oui |-> {
        2100167, 4736763, 13920936, 16272063}],
    [id |-> "pin32", oui |-> {
        1830, 1073899, 1097544, 1366761, 1859371, 2927397, 3179945, 3179945,
        4779532, 5260893, 5506214, 8396546, 8398473, 9473400, 13131776,
        14221027, 15256600, 16018692, 16550807}],
    [id |-> "pinDLink", oui |-> {
        5329, 1365581, 1867493, 2625659, 8702386, 10529563, 12100486,
        12624059, 13414997, 14216087, 16545046}],
    [id |-> "pinDLink1", oui |-> {
        5329, 6375, 6491, 7408, 7768, 8593, 8880, 9217, 9818, 1365581,
        1867493, 3409924, 6085016, 8702386, 12100486, 13155865, 13161379,
        13414997}],
    [id |-> "pinASUS", oui |-> {
        1830, 1830, 6012, 6012, 7846, 12367, 57420, 298296, 299558, 528503,
        528504, 528505, 540253, 548974, 549478, 1080132, 1097544, 1098619,
        1113837, 1367465, 1580664, 1852441, 1869612, 1881900, 2367687,
        2391840, 2905820, 2927397, 2948513, 3168826, 3179945, 3681354,
        3724615, 3939844, 4200062, 4256257, 4516317, 4779532, 5260893,
        5530841, 5546064, 5552138, 5798889, 6309323, 6333516, 6345130,
        6574462, 6609236, 7084431, 7107104, 7142841, 7359867, 7365304,
        7655467, 7873711, 7885870, 7920031, 8136292, 8404829, 8692771,
        8955590, 8968182, 9179348, 9209899, 9456970, 9466498, 9500242,
        9763762, 10247310, 10492713, 10548161, 11073504, 11280907, 11312663,
        11313683, 11562687, 12080400, 12119566, 12334080, 12359296,
        12381819, 12624059, 12849909, 12888093, 13131776, 13144569,
        13635289, 13637570, 13665456, 14176486, 14221027, 14696265,
        14991085, 15242486, 15256600, 15473241, 15475328, 15486029,
        15759705, 16001107, 16006753, 16018415, 16265956, 16296709,
        16312579, 16550807}],
    [id |-> "pinAirocon", oui |-> {
        1830, 2859, 3828, 4915, 6012, 6895, 57419, 135192, 528499, 528503,
        1053678, 2927397, 7900244, 8404829, 9763762, 12359296, 16006753,
        16550807}],
    [id |-> "pinEmpty", oui |-> {
        3727, 19063, 825023, 1073899, 1097461, 1859371, 2159523, 2921855,
        3427818, 3725359, 3971186, 5553747, 5821806, 6558572, 6856950,
        7351842, 7380781, 7645070, 7648638, 7658202, 7897346, 7902388,
        7902850, 8141139, 8398473, 8966772, 9201864, 9742263, 9966387,
        10278467, 10529563, 11330069, 13160798, 13280102, 13656204,
        13902114, 13918435, 13924074, 14704742, 14970643, 15475328}],
    [id |-> "pinCisco", oui |-> {
        6699, 9356, 9752, 3427819, 7369148, 14707093, 14732110}],
    [id |-> "pinBrcm1", oui |-> {
        6825, 1315915, 9997149, 11334111, 12383877, 13161379, 15491684}],
    [id |-> "pinBrcm2", oui |-> {
        1365581, 1867493, 2625659, 8702386, 12100486, 12383877, 13155865}],
    [id |-> "pinBrcm3", oui |-> {
        1365581, 1867493, 2625659, 8127308, 12100486, 12383877, 13155865}],
    [id |-> "pinBrcm4", oui |-> {
        1365581, 1597996, 1867493, 2117247, 2625659, 4986859, 8127448,
        8702386, 12100486, 12383877, 13155865, 13161379, 13414997, 14183657,
        16545046}],
    [id |-> "pinBrcm5", oui |-> {
        1365581, 1597996, 1867493, 2117247, 2625659, 4986859, 8127448,
        8702386, 12100486, 12383877, 13155865, 13161379, 13414997, 14183657,
        16545046}],
    [id |-> "pinBrcm6", oui |-> {
        1365581, 1597996, 1867493, 2117247, 2625659, 4986859, 8127448,
        8702386, 12100486, 12383877, 13155865, 13161379, 13414997, 14183657,
        16545046}],
    [id |-> "pinAirc1", oui |-> {
        1580664, 4256257, 4516317, 13665456}],
    [id |-> "pinAirc2", oui |-> {
        8692771, 8955590, 9179348}],
    [id |-> "pinDSL2740R", oui |-> {
        9818, 1883577, 3409924, 6085016, 8702386, 16545046}],
    [id |-> "pinRealtek1", oui |-> {
        3138, 3816, 5329}],
    [id |-> "pinRealtek2", oui |-> {
        29283, 14991085}],
    [id |-> "pinRealtek3", oui |-> {
        575155}],
    [id |-> "pinUpvel", oui |-> {
        16302225}],
    [id |-> "pinUR814AC", oui |-> {
        13942655}],
    [id |-> "pinUR825AC", oui |-> {
        13942655}],
    [id |-> "pinOnlime", oui |-> {
        5329, 7881846, 13942655, 16302225}],
    [id |-> "pinEdimax", oui |-> {
        57420, 8396546}],
    [id |-> "pinThomson", oui |-> {
        9764, 4469448, 8976327, 13370362}],
    [id |-> "pinHG532x", oui |-> {
        26187, 549729, 555596, 825023, 1358184, 2099437, 2386341, 3435475,
        7891593, 8971179, 10273138, 11330069, 13410851, 13662901, 15256877,
        16253203, 16268799}],
    [id |-> "pinH108L", oui |-> {
        4983220, 5024778, 10277451, 11564501, 13132999, 14418574, 16566423}],
    [id |-> "pinONO", oui |-> {
        6042939, 14439292}] >>

\* WPSpin.suggest: the ids whose tuple holds the OUI, in the order of the dict.
suggest(mac) ==
    LET oui == parseOUI(mac)
    IN  IF oui.exc # "" THEN oui
        ELSE LET hit(a) == oui.val \in a.oui
             IN  Return([i \in DOMAIN SelectSeq(algorithms, hit)
                         |-> SelectSeq(algorithms, hit)[i].id])

(***************************************************************************)
(* The calls made on the generator.  The object has no state of its own    *)
(* that a call changes: each call is made on the object as __init__ left   *)
(* it, and the model keeps the call and its outcome.                       *)
(***************************************************************************)
MaxNic == 11

MaxBase == 1002

\* The low 24 bits of the addresses the calls are made with.
NicSamples == {(k * 1398101) % TwoTo24 : k \in 0..MaxNic} \cup {TwoTo24 - 1}

\* The high 24 bits of the addresses generate() is called with.
GenOuis == {0, 5329, 1122867, 13942655, TwoTo24 - 1}

\* The 48-bit address oui:nic written as six pairs of digits with sep between.
MacString(oui, nic, sep) ==
    LET o == zfill(tohex(oui), 6)
        n == zfill(tohex(nic), 6)
    IN  SubSeq(o, 1, 2) \o sep \o SubSeq(o, 3, 4) \o sep \o SubSeq(o, 5, 6)
        \o sep \o SubSeq(n, 1, 2) \o sep \o SubSeq(n, 3, 4) \o sep
        \o SubSeq(n, 5, 6)

\* Addresses in the other spellings the parser takes.
OtherSpellings ==
    {"00-14-D1-AB-CD-EF", "00.14.D1.AB.CD.EF", "0014D1ABCDEF",
     "c8:3a:35:ab:cd:ef", "0014.d1ab.cdef"}

\* Strings that are no 48-bit address: too short, too long, empty, or with
\* a character that is no hexadecimal digit.
NotAddresses ==
    {"", "00:11:22", "00:11:22:33:44", "00:11:22:33:44:55:6",
     "00:11:22:ZZ:44:55", "001122ZZZZZZ", "G0:11:22:33:44:55", "::"}

GenMacs ==
    {MacString(o, n, ":") : o \in GenOuis, n \in NicSamples}
    \cup OtherSpellings \cup NotAddresses

\* Every OUI of the tables of suggest(), and some OUIs of no table.
SuggestOuis ==
    UNION {algorithms[i].oui : i \in DOMAIN algorithms}
    \cup {0, 1, 1122867, 5328, 5330, TwoTo24 - 1}

SuggestMacs ==
    {MacString(o, n, ":") : o \in SuggestOuis, n \in {0, 11259375}}
    \cup OtherSpellings \cup NotAddresses

\* The ids generate() is called with: the registered ones and some others.
AlgoInputs == algo_ids \cup {"", "pin16", "PIN24", "pinempty"}

\* The pins checksum() is called with, spread over 0 .. 9999999.
BaseSamples == {(k * 9973) % 10000000 : k \in 0..MaxBase} \cup {9999999}

\* No session is running.
NoSession ==
    /\ data = Data_init
    /\ options = [pin |-> DefaultPin, essid |-> <<>>, pixiemode |-> FALSE]
    /\ pc = "idle"
    /\ attempt = 0
    /\ nread = 0
    /\ res = FALSE
    /\ exitcode = -1
    /\ error = ""

InitGenerator == NoSession /\ GeneratorIdle /\ ScanIdle

\* generator.generate(algo, mac)
Generate(algo, mac) ==
    /\ call = NoCall
    /\ LET r == generate(algo, mac)
       IN  call' = [op |-> "generate", algo |-> algo, mac |-> mac, base |-> 0,
                    exc |-> r.exc, ret |-> r.val]
    /\ UNCHANGED <<vars, scanvars>>

\* generator.suggest(mac)
Suggest(mac) ==
    /\ call = NoCall
    /\ LET r == suggest(mac)
       IN  call' = [op |-> "suggest", algo |-> "", mac |-> mac, base |-> 0,
                    exc |-> r.exc, ret |-> r.val]
    /\ UNCHANGED <<vars, scanvars>>

\* The 48-bit addresses, as ints, the generator functions are called with.
MacInts == {Big(o, n) : o \in GenOuis, n \in NicSamples}

\* generator.pinDLink(mac)
PinDLink(mac) ==
    /\ call = NoCall
    /\ call' = [op |-> "pinDLink", algo |-> "", mac |-> mac, base |-> 0,
                exc |-> "", ret |-> pinDLink(mac)]
    /\ UNCHANGED <<vars, scanvars>>

\* generator.pinDLink1(mac)
PinDLink1(mac) ==
    /\ call = NoCall
    /\ call' = [op |-> "pinDLink1", algo |-> "", mac |-> mac, base |-> 0,
                exc |-> "", ret |-> pinDLink1(mac)]
    /\ UNCHANGED <<vars, scanvars>>

\* generator.checksum(base)
Checksum(base) ==
    /\ call = NoCall
    /\ call' = [op |-> "checksum", algo |-> "", mac |-> "", base |-> base,
                exc |-> "", ret |-> checksum(base)]
    /\ UNCHANGED <<vars, scanvars>>

NextGenerator ==
    \/ \E algo \in AlgoInputs, mac \in GenMacs : Generate(algo, mac)
    \/ \E mac \in SuggestMacs : Suggest(mac)
    \/ \E base \in BaseSamples : Checksum(base)
    \/ \E mac \in MacInts : PinDLink(mac)
    \/ \E mac \in MacInts : PinDLink1(mac)

SpecGenerator == InitGenerator /\ [][NextGenerator]_<<vars, genvars, scanvars>>

(***************************************************************************)
(* The scan parser (wifi_scan).  The matchers are the regular expressions  *)
(* of the dict matchers, each worked out on the characters of the line;    *)
(* re.match anchors a pattern at the start of the line and not at its end. *)
(* A match is the tuple of the groups the handler reads.                   *)
(***************************************************************************)
\* line.strip('\t')
RECURSIVE strip_tabs(_)
strip_tabs(s) ==
    IF Len(s) > 0 /\ CharAt(s, 1) = "\t"
    THEN strip_tabs(SubSeq(s, 2, Len(s)))
    ELSE IF Len(s) > 0 /\ CharAt(s, Len(s)) = "\t"
    THEN strip_tabs(SubSeq(s, 1, Len(s) - 1))
    ELSE s

\* The characters of s from the i-th on.
from(s, i) == IF i > Len(s) THEN "" ELSE SubSeq(s, i, Len(s))

\* The first character of s, "" for the empty string.
first(s) == IF Len(s) = 0 THEN "" ELSE CharAt(s, 1)

\* The length of the longest prefix of s made of characters of set.
RECURSIVE run(_, _)
run(s, set) ==
    IF Len(s) = 0 \/ find(set, CharAt(s, 1)) = 0 THEN 0
    ELSE 1 + run(from(s, 2), set)

Decimal == "0123456789"

\* \w: letters, digits and the underscore.
WordChars == LowerCase \o UpperCase \o Decimal \o "_"

\* \S: every character but the blanks.
NonBlank == from(AsciiLow, 2) \o AsciiHigh

\* The length of what ([0-9]*[.])?[0-9]+ takes at the start of s, 0 when it
\* does not match: digits, a point and digits when there are digits after
\* a point, the leading digits otherwise.
number_len(s) ==
    LET d1 == run(s, Decimal)
        d2 == IF first(from(s, d1 + 1)) = "." THEN run(from(s, d1 + 2), Decimal)
              ELSE 0
    IN  IF d2 > 0 THEN d1 + 1 + d2 ELSE d1

\* No match, and the match with the groups g.
NoMatch == <<>>

Match(g) == <<g>>

\* r'BSS (\S+)( )?\(on \w+\)': the group ends before the first blank; either
\* that blank is the optional one, or it is the one inside "(on ".
match_network(line) ==
    IF ~startswith(line, "BSS ") THEN NoMatch
    ELSE LET rest == from(line, 5)
             e == run(rest, NonBlank)
             closes(t) == run(t, WordChars) > 0
                          /\ first(from(t, run(t, WordChars) + 1)) = ")"
         IN  IF e > 0 /\ startswith(from(rest, e + 1), " (on ")
                /\ closes(from(rest, e + 6))
             THEN Match(<<SubSeq(rest, 1, e)>>)
             ELSE IF e > 3 /\ SubSeq(rest, e - 2, e) = "(on"
                     /\ first(from(rest, e + 1)) = " "
                     /\ closes(from(rest, e + 2))
             THEN Match(<<SubSeq(rest, 1, e - 3)>>)
             ELSE NoMatch

\* r'SSID: (.*)'
match_essid(line) ==
    IF startswith(line, "SSID: ") THEN Match(<<from(line, 7)>>) ELSE NoMatch

\* r'signal: ([+-]?([0-9]*[.])?[0-9]+) dBm'
match_level(line) ==
    IF ~startswith(line, "signal: ") THEN NoMatch
    ELSE LET rest == from(line, 9)
             sign == IF first(rest) \in {"+", "-"} THEN 1 ELSE 0
             n == number_len(from(rest, sign + 1))
         IN  IF n > 0 /\ startswith(from(rest, sign + n + 1), " dBm")
             THEN Match(<<SubSeq(rest, 1, sign + n)>>)
             ELSE NoMatch

\* r'(capability): (.+)'
match_capability(line) ==
    IF startswith(line, "capability: ") /\ Len(line) > 12
    THEN Match(<<"capability", from(line, 13)>>)
    ELSE NoMatch

\* r'(RSN):\t [*] Version: (\d+)' and r'(WPA):\t [*] Version: (\d+)'
match_version(tag, line) ==
    LET prefix == tag \o ":\t * Version: "
        n == run(from(line, Len(prefix) + 1), Decimal)
    IN  IF startswith(line, prefix) /\ n > 0
        THEN Match(<<tag, SubSeq(line, Len(prefix) + 1, Len(prefix) + n)>>)
        ELSE NoMatch

\* r'WPS:\t [*] Version: (([0-9]*[.])?[0-9]+)'
match_wps(line) ==
    LET prefix == "WPS:\t * Version: "
        n == number_len(from(line, Len(prefix) + 1))
    IN  IF startswith(line, prefix) /\ n > 0
        THEN Match(<<SubSeq(line, Len(prefix) + 1, Len(prefix) + n)>>)
        ELSE NoMatch

\* r' [*] AP setup locked: (0x[0-9]+)'
match_wpsLocked(line) ==
    LET prefix == " * AP setup locked: 0x"
        n == run(from(line, Len(prefix) + 1), Decimal)
    IN  IF startswith(line, prefix) /\ n > 0
        THEN Match(<<SubSeq(line, Len(prefix) - 1, Len(prefix) + n)>>)
        ELSE NoMatch

\* r' [*] Model: (.*)', r' [*] Model Number: (.*)', r' [*] Device name: (.*)'
match_text(prefix, line) ==
    IF startswith(line, prefix) THEN Match(<<from(line, Len(prefix) + 1)>>)
    ELSE NoMatch

\* The dict matchers in its order: the handler of each pattern, and the
\* match of the pattern on the line.
matchers(line) == <<
    [handler |-> "handle_network", res |-> match_network(line)],
    [handler |-> "handle_essid", res |-> match_essid(line)],
    [handler |-> "handle_level", res |-> match_level(line)],
    [handler |-> "handle_securityType", res |-> match_capability(line)],
    [handler |-> "handle_securityType", res |-> match_version("RSN", line)],
    [handler |-> "handle_securityType", res |-> match_version("WPA", line)],
    [handler |-> "handle_wps", res |-> match_wps(line)],
    [handler |-> "handle_wpsLocked", res |-> match_wpsLocked(line)],
    [handler |-> "handle_model", res |-> match_text(" * Model: ", line)],
    [handler |-> "handle_modelNumber",
     res |-> match_text(" * Model Number: ", line)],
    [handler |-> "handle_deviceName",
     res |-> match_text(" * Device name: ", line)] >>

\* The record handle_network appends.  A key the dict does not have yet
\* (ESSID, Level) is <<>>, a value it has is <<value>>; the False of 'WPS'
\* is <<>> and a version string v of 'WPS' is <<v>>.
Network(bssid) ==
    [Security_type |-> "Unknown", WPS |-> <<>>, WPS_locked |-> FALSE,
     Model |-> "", Model_number |-> "", Device_name |-> "",
     BSSID |-> bssid, ESSID |-> <<>>, Level |-> <<>>]

\* bool(x['WPS'])
bool(wps) == wps # <<>> /\ wps[1] # ""

\* int(float(s)) for a number of match_level: the digits before the point,
\* with the sign.
int_float(s) ==
    LET neg == first(s) = "-"
        body == IF first(s) \in {"+", "-"} THEN from(s, 2) ELSE s
        whole == int10(SubSeq(body, 1, run(body, Decimal)))
    IN  IF neg THEN 0 - whole ELSE whole

\* codecs.decode(d, 'unicode-escape').encode('latin1').decode('utf-8')
decode(d) ==
    LET b == unicode_escape(d)
    IN  IF ~b[1] THEN Raise("UnicodeDecodeError")
        ELSE LET t == decode_utf8(b[2])
             IN  IF ~t[1] THEN Raise("UnicodeDecodeError") ELSE Return(t[2])

\* The assignment made to networks[0], the record started first.
set_first(nets, key, value) ==
    IF nets = <<>> THEN Raise("IndexError")
    ELSE Return([nets EXCEPT ![1][key] = value])

\* networks[-1][key] = value
set_last(nets, key, value) ==
    IF nets = <<>> THEN Raise("IndexError")
    ELSE Return([nets EXCEPT ![Len(nets)][key] = value])

\* handle_securityType with the RSN line of a WPA network taken for WPA2.
securityType_rsn_replaces(sec, g) ==
    IF g[1] = "capability"
    THEN (IF contains("Privacy", g[2]) THEN "WEP" ELSE "Open")
    ELSE IF sec = "WEP"
    THEN (IF g[1] = "RSN" THEN "WPA2" ELSE IF g[1] = "WPA" THEN "WPA" ELSE sec)
    ELSE IF sec = "WPA"
    THEN (IF g[1] = "RSN" THEN "WPA2" ELSE sec)
    ELSE IF sec = "WPA2"
    THEN (IF g[1] = "WPA" THEN "WPA/WPA2" ELSE sec)
    ELSE sec

\* The if chain of handle_securityType: the new value of sec.
securityType(sec, g) ==
    IF g[1] = "capability"
    THEN (IF contains("Privacy", g[2]) THEN "WEP" ELSE "Open")
    ELSE IF sec = "WEP"
    THEN (IF g[1] = "RSN" THEN "WPA2" ELSE IF g[1] = "WPA" THEN "WPA" ELSE sec)
    ELSE IF sec = "WPA"
    THEN (IF g[1] = "RSN" THEN "WPA/WPA2" ELSE sec)
    ELSE IF sec = "WPA2"
    THEN (IF g[1] = "WPA" THEN "WPA/WPA2" ELSE sec)
    ELSE sec

\* handler(line, res, networks) for the groups g of the match: the list
\* after the call, or the exception of the call.  The right-hand side of an
\* assignment is worked out before networks[-1] is read.
handle(handler, g, nets) ==
    CASE handler = "handle_network" ->
             Return(Append(nets, Network(upper(g[1]))))
      [] handler = "handle_essid" ->
             LET d == decode(g[1])
             IN  IF d.exc # "" THEN d ELSE set_last(nets, "ESSID", <<d.val>>)
      [] handler = "handle_level" ->
             set_last(nets, "Level", <<int_float(g[1])>>)
      [] handler = "handle_securityType" ->
             IF nets = <<>> THEN Raise("IndexError")
             ELSE set_last(nets, "Security_type",
                           securityType(nets[Len(nets)].Security_type, g))
      [] handler = "handle_wps" -> set_last(nets, "WPS", <<g[1]>>)
      [] handler = "handle_wpsLocked" ->
             IF hexint(from(g[1], 3)) # 0
             THEN set_last(nets, "WPS_locked", TRUE)
             ELSE Return(nets)
      [] handler = "handle_model" ->
             LET d == decode(g[1])
             IN  IF d.exc # "" THEN d ELSE set_last(nets, "Model", d.val)
      [] handler = "handle_modelNumber" ->
             LET d == decode(g[1])
             IN  IF d.exc # "" THEN d
                 ELSE set_last(nets, "Model_number", d.val)
      [] handler = "handle_deviceName" ->
             LET d == decode(g[1])
             IN  IF d.exc # "" THEN d
                 ELSE set_last(nets, "Device_name", d.val)

\* The inner loop of wifi_scan over the matchers, from the k-th on: every
\* pattern that matches has its handler called; an exception ends the loop.
RECURSIVE handle_line(_, _, _)
handle_line(ms, k, nets) ==
    IF k > Len(ms) THEN Return(nets)
    ELSE IF ms[k].res = NoMatch THEN handle_line(ms, k + 1, nets)
    ELSE LET r == handle(ms[k].handler, ms[k].res[1], nets)
         IN  IF r.exc # "" THEN r ELSE handle_line(ms, k + 1, r.val)

\* filter() keeping every network.
filter_wps_keeps_all(nets) == nets

\* list(filter(lambda x: bool(x['WPS']), networks))
filter_wps(nets) == SelectSeq(nets, LAMBDA x : bool(x.WPS))

\* The place of x in a list sorted from the weakest level to the strongest.
RECURSIVE insert_ascending(_, _)
insert_ascending(sorted, x) ==
    IF sorted = <<>> THEN <<x>>
    ELSE IF Head(sorted).Level[1] <= x.Level[1]
    THEN <<Head(sorted)>> \o insert_ascending(Tail(sorted), x)
    ELSE <<x>> \o sorted

\* The place of x in a sorted list: after every network that is not weaker,
\* which keeps networks of one level in the order they came.
RECURSIVE insert(_, _)
insert(sorted, x) ==
    IF sorted = <<>> THEN <<x>>
    ELSE IF Head(sorted).Level[1] >= x.Level[1]
    THEN <<Head(sorted)>> \o insert(Tail(sorted), x)
    ELSE <<x>> \o sorted

\* networks.sort(key=lambda x: x['Level'], reverse=True): the key of every
\* network is read first (KeyError for a network without the key), and the
\* sort is stable.
RECURSIVE sorted_by_level(_, _)
sorted_by_level(done, rest) ==
    IF rest = <<>> THEN done
    ELSE sorted_by_level(insert(done, Head(rest)), Tail(rest))

sort(nets) ==
    IF \E i \in DOMAIN nets : nets[i].Level = <<>> THEN Raise("KeyError")
    ELSE Return(sorted_by_level(<<>>, nets))

(***************************************************************************)
(* Lines of the output of 'iw dev <iface> scan', as splitlines() gives     *)
(* them to the loop.                                                       *)
(***************************************************************************)
SBss1 == "BSS 00:11:22:33:44:55(on wlan0)"
SBss2 == "BSS aa:bb:cc:dd:ee:ff(on wlan0) -- associated"
SBss3 == "BSS 0a:0b:0c:0d:0e:0f (on wlan0)"
SBss4 == "BSS c8:3a:35:01:02:03(on wlan0)"
SBssLoad == "\tBSS Load:"
SFreq == "\tfreq: 2437"
SSignal30 == "\tsignal: -30.00 dBm"
SSignal40 == "\tsignal: -40.00 dBm"
SSignal60 == "\tsignal: -60.00 dBm"
SSignal60Frac == "\tsignal: -60.90 dBm"
SSignal91 == "\tsignal: -91 dBm"
SSignalBad == "\tsignal: -4x dBm"
SSsid == "\tSSID: alpha"
SSsidEscaped == "\tSSID: \\x41lpha"
SSsidBroken == "\tSSID: a\\x"
SCapPrivacy == "\tcapability: ESS Privacy ShortSlotTime (0x0411)"
SCapOpen == "\tcapability: ESS ShortSlotTime (0x0401)"
SRsn == "\tRSN:\t * Version: 1"
SWpa == "\tWPA:\t * Version: 1"
SWps == "\tWPS:\t * Version: 1.0"
SWps2 == "\tWPS:\t * Version: 2"
SWpsNoVersion == "\tWPS:\t * Version: x"
SLocked == "\t\t * AP setup locked: 0x01"
SUnlocked == "\t\t * AP setup locked: 0x00"
SModel == "\t\t * Model: Archer"
SModelNumber == "\t\t * Model Number: C7"
SDeviceName == "\t\t * Device name: Wireless Router"
SBusy == "command failed: Device or resource busy (-16)"

ScanLines == <<
    SBss1, SBss2, SBss3, SBss4, SBssLoad, SFreq, SSignal30, SSignal40,
    SSignal60, SSignal60Frac, SSignal91, SSignalBad, SSsid, SSsidEscaped,
    SSsidBroken, SCapPrivacy, SCapOpen, SRsn, SWpa, SWps, SWps2,
    SWpsNoVersion, SLocked, SUnlocked, SModel, SModelNumber, SDeviceName,
    SBusy >>

\* For each line of ScanLines, the matchers on the line as the loop strips it.
ScanMatches == [i \in DOMAIN ScanLines |-> matchers(strip_tabs(ScanLines[i]))]

\* The number of a line in ScanLines.
ScanNo(l) == CHOOSE i \in DOMAIN ScanLines : ScanLines[i] = l

(***************************************************************************)
(* The dumps wifi_scan is run on, each a list of numbers of lines.  A dump *)
(* of blocks is some blocks of BSS one after another; a dump of security   *)
(* lines is one BSS with capability, RSN, WPA and other lines in any       *)
(* order.                                                                  *)
(***************************************************************************)
MaxBlocks == 3

MaxSecurityLines == 4

Numbers(ls) == [i \in DOMAIN ls |-> ScanNo(ls[i])]

Blocks == <<
    Numbers(<<SBss1, SFreq, SSignal40, SSsid, SCapPrivacy, SRsn, SWps, SLocked,
              SModel, SModelNumber, SDeviceName>>),
    Numbers(<<SBss2, SSignal60Frac, SSsidEscaped, SCapPrivacy, SWpa, SRsn,
              SWps2, SUnlocked, SBssLoad>>),
    Numbers(<<SBss3, SSignal60, SWps>>),
    Numbers(<<SBss4, SSignal30, SSsid, SCapOpen>>),
    Numbers(<<SBss1, SSignal91, SCapPrivacy, SWps, SWpsNoVersion>>),
    Numbers(<<SBss2, SSignalBad, SWps>>),
    Numbers(<<SBss3, SSignal60, SSsid, SWps2, SLocked>>) >>

RECURSIVE Concat(_)
Concat(bs) == IF bs = <<>> THEN <<>> ELSE Blocks[Head(bs)] \o Concat(Tail(bs))

BlockDumps ==
    {Concat(bs) : bs \in UNION {[1..n -> DOMAIN Blocks] : n \in 0..MaxBlocks}}

SecurityLines == Numbers(<<SCapPrivacy, SCapOpen, SRsn, SWpa, SSsid>>)

SecurityDumps ==
    {<<ScanNo(SBss1)>> \o [i \in DOMAIN ls |-> SecurityLines[ls[i]]] :
        ls \in UNION {[1..n -> DOMAIN SecurityLines] :
                          n \in 0..MaxSecurityLines}}

\* Dumps that do not start with a BSS line, or hold a line no handler reads
\* to its end.
OtherDumps ==
    {Numbers(<<SBusy>>),
     Numbers(<<SSsid, SBss1, SSignal40, SWps>>),
     Numbers(<<SUnlocked, SBss1, SSignal40, SWps>>),
     Numbers(<<SLocked, SBss1, SSignal40, SWps>>),
     Numbers(<<SBss1, SSignal40, SSsidBroken, SWps>>)}

Dumps == BlockDumps \cup SecurityDumps \cup OtherDumps

InitScan ==
    /\ NoSession
    /\ GeneratorIdle
    /\ dump \in Dumps
    /\ pos = 0
    /\ networks = <<>>
    /\ scanpc = "lines"

\* One turn of the loop over the lines: the next line of the dump, stripped,
\* goes to the handler of every pattern that matches it.
ScanLine ==
    /\ scanpc = "lines"
    /\ pos < Len(dump)
    /\ LET r == handle_line(ScanMatches[dump[pos + 1]], 1, networks)
       IN  IF r.exc # ""
           THEN scanpc' = r.exc /\ UNCHANGED networks
           ELSE networks' = r.val /\ UNCHANGED scanpc
    /\ pos' = pos + 1
    /\ UNCHANGED <<dump, vars, genvars>>

\* After the last line: the filter, the sort and the return.
ScanReturn ==
    /\ scanpc = "lines"
    /\ pos = Len(dump)
    /\ LET r == sort(filter_wps(networks))
       IN  IF r.exc # ""
           THEN scanpc' = r.exc /\ UNCHANGED networks
           ELSE scanpc' = "returned" /\ networks' = r.val
    /\ UNCHANGED <<dump, pos, vars, genvars>>

NextScan == ScanLine \/ ScanReturn

SpecScan == InitScan /\ [][NextScan]_<<vars, genvars, scanvars>>

(***************************************************************************)
(* The claims about the pin generator, checked on SpecGenerator.           *)
(***************************************************************************)
\* The digit of base at position i, position 0 the least significant.
DigitAt(base, i) ==
    CASE i = 0 -> base % 10
      [] i = 1 -> (base \div 10) % 10
      [] i = 2 -> (base \div 100) % 10
      [] i = 3 -> (base \div 1000) % 10
      [] i = 4 -> (base \div 10000) % 10
      [] i = 5 -> (base \div 100000) % 10
      [] i = 6 -> (base \div 1000000) % 10

\* Weight 3 at positions 0, 2, 4, 6 and weight 1 at positions 1, 3, 5.
WeightedSum(base) ==
    3 * (DigitAt(base, 0) + DigitAt(base, 2) + DigitAt(base, 4)
         + DigitAt(base, 6))
    + DigitAt(base, 1) + DigitAt(base, 3) + DigitAt(base, 5)

\* C12: for every base from 0 to 9999999 the checksum routine returns
\* (10 - s mod 10) mod 10, s the sum of the digits of base weighted 3 at the
\* even positions and 1 at the odd ones counted from the right; the
\* checksum of 0 is 0.
C12_ChecksumIsWeightedSum ==
    call.op = "checksum" =>
        /\ call.ret = (10 - (WeightedSum(call.base) % 10)) % 10
        /\ (call.base = 0 => call.ret = 0)

\* checksum() has returned a non-zero check digit for a pin of seven digits.
C12_Witness ==
    call.op = "checksum" /\ call.base >= 1000000 /\ call.ret # 0

\* A 48-bit address: twelve hexadecimal digits once the separators are out.
ValidMac(mac) ==
    LET s == unseparated(mac)
    IN  Len(s) = 12 /\ \A i \in 1..12 : hexval(CharAt(s, i)) >= 0

\* The upper and the lower 24 bits of a 48-bit address.
Upper24(mac) == hexint(SubSeq(unseparated(mac), 1, 6))

Lower24(mac) == hexint(SubSeq(unseparated(mac), 7, 12))

AllDecimal(s) == \A i \in 1..Len(s) : find("0123456789", CharAt(s, i)) > 0

\* The raw value of a registered generator for an address, modulo 10^7.
ReducedRaw(algo, mac) == mod(gen(algo, parseMAC(mac).val), 10000000)

\* C11: for every registered algorithm but the empty-PIN one and every valid
\* address, generate returns exactly eight decimal digits: the first seven
\* are the generator's raw value modulo 10,000,000 padded with zeros on the
\* left, the eighth is the checksum of that reduced value.
C11_EightDigitsWithChecksum ==
    (/\ call.op = "generate"
     /\ call.algo \in algo_ids \ {"pinEmpty"}
     /\ ValidMac(call.mac))
    => /\ call.exc = ""
       /\ Len(call.ret) = 8
       /\ AllDecimal(call.ret)
       /\ int10(SubSeq(call.ret, 1, 7)) = ReducedRaw(call.algo, call.mac)
       /\ int10(SubSeq(call.ret, 8, 8))
              = checksum(ReducedRaw(call.algo, call.mac))

\* generate() has returned a pin of a generator that reads the address, and
\* the reduced value had fewer than seven digits: the zero fill made the pin
\* eight digits long.
C11_Witness ==
    /\ call.op = "generate"
    /\ call.algo \in {"pin28", "pin32", "pinAirocon"}
    /\ ValidMac(call.mac)
    /\ call.exc = ""
    /\ ReducedRaw(call.algo, call.mac) < 1000000
    /\ ReducedRaw(call.algo, call.mac) > 0

\* The strings int(s, 16) takes once the separators are out: hexadecimal
\* digits, at least one, of any number.
ParserAccepts(mac) ==
    LET s == unseparated(mac)
    IN  s # "" /\ \A i \in 1..Len(s) : hexval(CharAt(s, i)) >= 0

\* C13 as stated: for every id that is not registered and every address
\* argument, generate fails with WPSException and with no other error.
C13_UnknownAlgorithmRaises ==
    (call.op = "generate" /\ call.algo \notin algo_ids)
    => call.exc = "WPSException"

\* C13: for every id that is not registered, generate returns no pin: it
\* fails with WPSException when the address parser accepts the address
\* argument, and with the parser's ValueError when it does not, the address
\* being parsed before the registry is looked up.
C13_UnknownAlgorithmRaisesAfterParse ==
    (call.op = "generate" /\ call.algo \notin algo_ids)
    => call.exc = (IF ParserAccepts(call.mac) THEN "WPSException"
                   ELSE "ValueError")

\* generate() was called with an id that is not registered and a valid
\* address, and raised WPSException.
C13_Witness ==
    /\ call.op = "generate"
    /\ call.algo \notin algo_ids
    /\ ValidMac(call.mac)
    /\ call.exc = "WPSException"

\* C14: a string that is not exactly twelve hexadecimal digits once ':', '-'
\* and '.' are out is rejected with an error by generate and by suggest.
C14_MalformedAddressRejected ==
    (call.op \in {"generate", "suggest"} /\ ~ValidMac(call.mac))
    => call.exc # ""

\* C15: for the empty-PIN algorithm generate returns the empty string for
\* every address; the value is not reduced modulo 10,000,000 and gets no
\* checksum digit.
C15_EmptyPinIsEmpty ==
    (call.op = "generate" /\ call.algo = "pinEmpty" /\ ValidMac(call.mac))
    => (call.exc = "" /\ call.ret = "")

\* generate() has returned the empty pin for a valid address.
C15_Witness ==
    /\ call.op = "generate"
    /\ call.algo = "pinEmpty"
    /\ ValidMac(call.mac)
    /\ call.exc = ""
    /\ Len(call.ret) = 0

\* The ids of the registry, in the order it was filled.
CatalogOrder == [i \in DOMAIN algos |-> algos[i].id]

\* The registered ids whose table holds the upper 24 bits of the address, in
\* the order of the registry.
Matching(mac) ==
    LET hit(id) == \E i \in DOMAIN algorithms :
                       algorithms[i].id = id /\ Upper24(mac) \in algorithms[i].oui
    IN  SelectSeq(CatalogOrder, hit)

\* C16: suggest returns exactly the ids whose OUI table holds the upper 24
\* bits of the address, each once, in the order the registry was filled:
\* the empty list when no table holds the OUI, a non-empty one otherwise.
C16_SuggestIsTableMembership ==
    (call.op = "suggest" /\ ValidMac(call.mac))
    => /\ call.exc = ""
       /\ call.ret = Matching(call.mac)
       /\ \A i, j \in DOMAIN call.ret : call.ret[i] = call.ret[j] => i = j
       /\ (call.ret = <<>>)
              <=> (\A k \in DOMAIN algorithms :
                       Upper24(call.mac) \notin algorithms[k].oui)

\* suggest() has returned several ids for an address, and not in the order
\* of their names.
C16_Witness ==
    /\ call.op = "suggest"
    /\ ValidMac(call.mac)
    /\ call.exc = ""
    /\ Len(call.ret) >= 3
    /\ call.ret[1] = "pin24"
    /\ call.ret[Len(call.ret)] = "pinOnlime"

\* C17: for the 24-bit algorithm the number that the first seven digits of
\* generate's pin write is (mac & 0xFFFFFF) modulo 10,000,000.
C17_Pin24IsLowBits ==
    (call.op = "generate" /\ call.algo = "pin24" /\ ValidMac(call.mac))
    => /\ call.exc = ""
       /\ int10(SubSeq(call.ret, 1, 7)) = Lower24(call.mac) % 10000000

\* generate() has returned a 24-bit pin for an address whose low 24 bits
\* exceed 9,999,999 and whose upper 24 bits are not 0.
C17_Witness ==
    /\ call.op = "generate"
    /\ call.algo = "pin24"
    /\ ValidMac(call.mac)
    /\ call.exc = ""
    /\ Lower24(call.mac) >= 10000000
    /\ Upper24(call.mac) % 16 # 0

(***************************************************************************)
(* The claims about the scan parser, checked on SpecScan.  The lines are   *)
(* sorted here by what they are in a dump of iw, not by the patterns.      *)
(***************************************************************************)
\* The lines that open a block, and the WPS version lines.
BssLineNos == {ScanNo(SBss1), ScanNo(SBss2), ScanNo(SBss3), ScanNo(SBss4)}

WpsLineNos == {ScanNo(SWps), ScanNo(SWps2)}

\* The number of the block the i-th line of dump d is in: the BSS lines up
\* to it.
BlockOf(d, i) == Cardinality({j \in 1..i : d[j] \in BssLineNos})

\* The blocks of dump d that hold a WPS version line.
WpsBlocks(d) == {BlockOf(d, i) : i \in {j \in DOMAIN d : d[j] \in WpsLineNos}}

\* How often record r is in the list s.
Count(s, r) == Cardinality({i \in DOMAIN s : s[i] = r})

Range(s) == {s[i] : i \in DOMAIN s}

\* wifi_scan returns in this step.
Returns == scanpc = "lines" /\ scanpc' = "returned"

AtLevel(s, l) == SelectSeq(s, LAMBDA x : x.Level = l)

\* The WPS-capable records of s, in their order in s.
WpsCapable(s) == SelectSeq(s, LAMBDA x : x.WPS # <<>>)

\* C19: the output is ordered by signal level, strongest first; networks of
\* one level keep the order of the scan; the output is a permutation of the
\* WPS-capable records.
C19_StrongestFirstStable ==
    [][Returns =>
          /\ \A i, j \in DOMAIN networks' :
                 i < j => networks'[i].Level[1] >= networks'[j].Level[1]
          /\ \A l \in {r.Level : r \in Range(networks) \cup Range(networks')} :
                 AtLevel(networks', l) = AtLevel(WpsCapable(networks), l)
          /\ Len(networks') = Len(WpsCapable(networks))
      ]_scanvars

\* wifi_scan has returned three networks or more, two of one level from two
\* different blocks among them, and the first block of the dump is not the
\* first network of the output.
C19_Witness ==
    /\ scanpc = "returned"
    /\ Len(networks) >= 3
    /\ \E i \in 1..(Len(networks) - 1) :
           /\ networks[i].Level = networks[i + 1].Level
           /\ networks[i].BSSID # networks[i + 1].BSSID
    /\ dump[1] = ScanNo(SBss3)
    /\ networks[1].BSSID # upper("0a:0b:0c:0d:0e:0f")

\* What a line is for the security type: a capability line with or without
\* Privacy, an RSN line, a WPA line, or any other line.
SecurityKind ==
    [i \in DOMAIN ScanLines |->
        IF i = ScanNo(SCapPrivacy) THEN "privacy"
        ELSE IF i = ScanNo(SCapOpen) THEN "open"
        ELSE IF i = ScanNo(SRsn) THEN "RSN"
        ELSE IF i = ScanNo(SWpa) THEN "WPA"
        ELSE "other"]

\* The transition system of the security type.
SecurityStep(sec, kind) ==
    CASE kind = "privacy" -> "WEP"
      [] kind = "open" -> "Open"
      [] kind = "RSN" /\ sec = "WEP" -> "WPA2"
      [] kind = "RSN" /\ sec = "WPA" -> "WPA/WPA2"
      [] kind = "WPA" /\ sec = "WEP" -> "WPA"
      [] kind = "WPA" /\ sec = "WPA2" -> "WPA/WPA2"
      [] OTHER -> sec

\* C20: a block starts at Unknown; a capability line sets WEP when it holds
\* Privacy and Open when not; an RSN line takes WEP to WPA2 and WPA to
\* WPA/WPA2; a WPA line takes WEP to WPA and WPA2 to WPA/WPA2; every other
\* pair of a type and a line leaves the type as it is.
C20_SecurityTypeTransitions ==
    [][(scanpc = "lines" /\ scanpc' = "lines" /\ pos' = pos + 1) =>
          IF dump[pos'] \in BssLineNos
          THEN networks'[Len(networks')].Security_type = "Unknown"
          ELSE networks # <<>> =>
                   networks'[Len(networks')].Security_type
                       = SecurityStep(networks[Len(networks)].Security_type,
                                      SecurityKind[dump[pos']])
      ]_scanvars

\* The RSN line of a block that was WPA has made it WPA/WPA2.
C20_Witness ==
    /\ scanpc = "lines"
    /\ pos > 1
    /\ dump[pos] = ScanNo(SRsn)
    /\ dump[pos - 1] = ScanNo(SWpa)
    /\ networks # <<>>
    /\ networks[Len(networks)].Security_type = "WPA/WPA2"

\* The loop of wifi_scan handles the next line of the dump in this step.
HandlesLine == scanpc = "lines" /\ pos' = pos + 1

\* The fields of a record that are in it from its start, with the values
\* they start with.
StartsWithDefaults(r) ==
    /\ r.Security_type = "Unknown"
    /\ r.WPS = <<>>
    /\ r.WPS_locked = FALSE
    /\ r.Model = ""
    /\ r.Model_number = ""
    /\ r.Device_name = ""

\* C21: a line that opens a block appends one record with the default
\* fields and leaves the records before it as they were; every other line
\* leaves the number of records and every record but the last as they were;
\* after each line there are as many records as lines that opened a block.
C21_LinesWriteTheLastRecord ==
    [][HandlesLine =>
          /\ IF dump[pos'] \in BssLineNos
             THEN /\ Len(networks') = Len(networks) + 1
                  /\ SubSeq(networks', 1, Len(networks)) = networks
                  /\ StartsWithDefaults(networks'[Len(networks')])
             ELSE /\ Len(networks') = Len(networks)
                  /\ \A i \in 1..(Len(networks) - 1) : networks'[i] = networks[i]
          /\ Len(networks') = BlockOf(dump, pos')
      ]_scanvars

\* The locked line of a second block has set the flag of the second record,
\* and the first record holds what the lines of the first block gave it.
C21_Witness ==
    /\ scanpc = "lines"
    /\ Len(networks) = 2
    /\ dump[pos] = ScanNo(SLocked)
    /\ networks[2].WPS_locked
    /\ networks[2].Model = ""
    /\ networks[1].Model = "Archer"
    /\ networks[1].ESSID = <<"alpha">>

(***************************************************************************)
(* The claims about the lines that are not hexdumps, checked on Spec.      *)
(***************************************************************************)
\* The state lines of Lines that name two states, with the two states as
\* wpa_supplicant wrote them.
Transitions ==
    { [no |-> LineNo(LStateScanning), from |-> "DISCONNECTED", to |-> "SCANNING"],
      [no |-> LineNo(LStateAssociating), from |-> "SCANNING",
       to |-> "ASSOCIATING"] }

\* C22: a line "... State: X -> Y" sets the state tag to Y, whatever the
\* tag was and whatever X is, and leaves the six pixie artifacts and the
\* PSK as they were.
C22_StateLineSetsNewState ==
    [][\A t \in Transitions :
          ReadLine(t.no)
              => /\ data'.state = t.to
                 /\ SameSix(data, data')
                 /\ data'.wpa_psk = data.wpa_psk
                 /\ error' = error
      ]_vars

\* Of two lines read, one was "State: SCANNING -> ASSOCIATING", read when
\* the tag was not SCANNING, and the nonce the other line stored is kept.
C22_Witness ==
    /\ pc = "poll" /\ attempt = 1 /\ nread = 2
    /\ data.state = "ASSOCIATING"
    /\ data.e_nonce # ""

\* The lines of Lines that none of the patterns is written for: an empty
\* line, and a hexdump of wpa_supplicant for a value the program does not
\* collect.
Unmatched == {LineNo(LBlank), LineNo(LRegistrarNonce)}

\* C23: a line that matches no pattern, a "WPS: " line among them, leaves
\* the state tag, the six pixie artifacts and the PSK as they were, and the
\* loop goes on to the next line.
C23_UnmatchedLineChangesNothing ==
    [][\A l \in Unmatched :
          ReadLine(l)
              => /\ data' = data
                 /\ pc' = "poll"
                 /\ error' = error /\ exitcode' = exitcode /\ res' = res
      ]_vars

\* The loop has read as many lines as a stream holds and is still reading;
\* the record holds the tag M1 and one artifact, which two of the lines
\* gave it, and the other lines, empty lines among them, left it alone.
C23_Witness ==
    /\ pc = "poll" /\ attempt = 1 /\ nread = MaxLines
    /\ data.state = "M1"
    /\ data.pke # ""
    /\ \A f \in PixieFields \ {"pke"} : data[f] = ""

\* The lines of Lines that hold the marker WPS-FAIL: whether the line is a
\* message-built, message-received or WSC_NACK line, whether it is a state
\* line, and whether it starts with "WPS: ".
FailLines ==
    { [no |-> LineNo(LFail), message |-> FALSE, transition |-> FALSE,
       debug |-> FALSE],
      [no |-> LineNo(LFailDebug), message |-> FALSE, transition |-> FALSE,
       debug |-> TRUE],
      [no |-> LineNo(LFailState), message |-> FALSE, transition |-> TRUE,
       debug |-> FALSE] }

\* Reading the line sets the tag WPS-FAIL and ends the attempt.
FailsOn(l) ==
    ReadLine(l) => (data'.state = "WPS-FAIL" /\ pc' = "polled")

\* C24 as the specification states it: every line with the marker WPS-FAIL
\* that is no message line, no WSC_NACK line and no state line sets the tag
\* WPS-FAIL, which ends the attempt.
C24_EveryFailLineFails ==
    [][\A f \in FailLines : (~f.message /\ ~f.transition) => FailsOn(f.no)]_vars

\* C24: a line makes the one transition of the first test it passes: a line
\* with the marker WPS-FAIL that does not start with "WPS: " and is no state
\* line sets the tag WPS-FAIL and changes nothing else, which ends the
\* attempt; a state line with the marker makes its own transition and no
\* other; a "WPS: " line with the marker that is no message line, no
\* WSC_NACK line and no hexdump changes nothing, and the loop goes on.
C24_FirstTestDecides ==
    [][\A f \in FailLines :
          ReadLine(f.no)
              => /\ SameSix(data, data') /\ data'.wpa_psk = data.wpa_psk
                 /\ IF f.debug THEN data'.state = data.state /\ pc' = "poll"
                    ELSE IF f.transition
                    THEN data'.state = "DISCONNECTED" /\ pc' = "poll"
                    ELSE data'.state = "WPS-FAIL" /\ pc' = "polled"
      ]_vars

\* A line with the marker set the tag WPS-FAIL with one artifact stored:
\* the loop is left and reports a failure.
C24_Witness ==
    /\ pc = "polled" /\ attempt = 1
    /\ data.state = "WPS-FAIL"
    /\ data.authkey # "" /\ data.pke = ""
    /\ ~res

\* The lines of Lines that report the progress of a connection: the
\* authentication, the association, the EAPOL start, the identity request
\* and the identity response.
Progress ==
    {LineNo(LAuthenticate), LineNo(LAuthResponse), LineNo(LAssociate),
     LineNo(LAssociated), LineNo(LTxStart), LineNo(LIdentity),
     LineNo(LRealIdentity)}

\* No progress line changes one of the six pixie artifacts or the PSK.
ProgressKeepsArtifacts ==
    \A l \in Progress :
        ReadLine(l) => (SameSix(data, data') /\ data'.wpa_psk = data.wpa_psk)

\* C25 as the specification states it: the EAPOL-start line sets the tag
\* EAPOL_START, and no progress line changes an artifact or the PSK.
C25_EapolStartTagUnderscore ==
    [][ /\ ReadLine(LineNo(LTxStart)) => data'.state = "EAPOL_START"
        /\ ProgressKeepsArtifacts ]_vars

\* C25: the EAPOL-start line sets the tag to the string 'EAPOL Start', and
\* no progress line (authentication, association, EAPOL start, identity
\* request, identity response) changes one of the six pixie artifacts or
\* the PSK.
C25_EapolStartTag ==
    [][ /\ ReadLine(LineNo(LTxStart)) => data'.state = "EAPOL Start"
        /\ ProgressKeepsArtifacts ]_vars

\* The EAPOL start is the tag of a record that holds two artifacts, and the
\* authentication line has given the options the ESSID.
C25_Witness ==
    /\ pc = "poll" /\ attempt = 1
    /\ data.state = "EAPOL Start"
    /\ data.e_nonce # "" /\ data.pkr # ""
    /\ options.essid # <<>>

(***************************************************************************)
(* The claim about the two D-Link generators, checked on SpecGenerator.    *)
(* The formula is worked out here nibble by nibble and bit by bit.         *)
(***************************************************************************)
\* Bit i of x, and nibble i of x, both counted from the least significant.
BitOf(x, i) == (x \div (2 ^ i)) % 2

NibbleOf(x, i) == (x \div (16 ^ i)) % 16

\* The exclusive or of two nibbles.
NibbleXor(a, b) ==
    ((BitOf(a, 0) + BitOf(b, 0)) % 2)
    + 2 * ((BitOf(a, 1) + BitOf(b, 1)) % 2)
    + 4 * ((BitOf(a, 2) + BitOf(b, 2)) % 2)
    + 8 * ((BitOf(a, 3) + BitOf(b, 3)) % 2)

\* The six nibbles of 0x55AA55, the least significant first.
DLinkMask == <<5, 5, 10, 10, 5, 5>>

\* The pin of the formula for the low 24 bits nic of an address: nic xor
\* 0x55AA55, then the lowest nibble xor-ed into the five nibbles above it,
\* then modulo 10,000,000, and a value below 1,000,000 raised by
\* (p mod 9) * 1,000,000 + 1,000,000.
DLinkFormula(nic) ==
    LET p(i) == NibbleXor(NibbleOf(nic, i), DLinkMask[i + 1])
        q(i) == IF i = 0 THEN p(0) ELSE NibbleXor(p(i), p(0))
        r == (q(0) + 16 * q(1) + 256 * q(2) + 4096 * q(3) + 65536 * q(4)
              + 1048576 * q(5)) % 10000000
    IN  IF r < 1000000 THEN r + ((r % 9) * 1000000) + 1000000 ELSE r

\* The low 24 bits of m + 1 for an address m with the low 24 bits nic.
NextNic(nic) == (nic + 1) % TwoTo24

SevenDigits(v) == v.hi = 0 /\ v.lo >= 1000000 /\ v.lo <= 9999999

\* C26: for a 48-bit address m, pinDLink returns the formula on m and
\* pinDLink1 the formula on m + 1, both between 1,000,000 and 9,999,999;
\* the first seven digits of the pin generate() makes of them write the
\* same number.
C26_DLinkFormulaInRange ==
    /\ call.op = "pinDLink"
           => /\ call.ret = Big(0, DLinkFormula(call.mac.lo))
              /\ SevenDigits(call.ret)
    /\ call.op = "pinDLink1"
           => /\ call.ret = Big(0, DLinkFormula(NextNic(call.mac.lo)))
              /\ SevenDigits(call.ret)
    /\ (call.op = "generate" /\ call.algo = "pinDLink" /\ ValidMac(call.mac))
           => int10(SubSeq(call.ret, 1, 7)) = DLinkFormula(Lower24(call.mac))
    /\ (call.op = "generate" /\ call.algo = "pinDLink1" /\ ValidMac(call.mac))
           => int10(SubSeq(call.ret, 1, 7))
                  = DLinkFormula(NextNic(Lower24(call.mac)))

\* pinDLink1 was called with the address ff:ff:ff:ff:ff:ff, whose successor
\* has 49 bits, and returned a pin that the formula raised from below
\* 1,000,000.
C26_Witness ==
    /\ call.op = "pinDLink1"
    /\ call.mac = Big(TwoTo24 - 1, TwoTo24 - 1)
    /\ call.ret.lo % 1000000 < 100000
    /\ call.ret.lo >= 9000000

(***************************************************************************)
(* The claim about the main program, checked on Spec.                      *)
(***************************************************************************)
\* The pins that the outputs of pixiewps in PixieOutputs report: one output
\* reports 48563710, one reports <empty>, one reports a pin of no
\* characters, two report none.
RecoveredPins == {"48563710"}

\* A connect() starts in this step.
AttemptBegins == attempt' # attempt \/ (pc # "poll" /\ pc' = "poll")

\* C27: a run makes at most two attempts.  The second starts only after the
\* first ended with no PSK and all six pixie artifacts, in pixie mode, when
\* pixiewps reported a pin that is not missing and not "<empty>"; it runs
\* with that pin and with pixie mode off, and when it has ended the run
\* exits.  The run exits with status 0 only with a PSK captured.
C27_AtMostTwoAttempts ==
    /\ [][AttemptBegins =>
             /\ attempt = 1 /\ attempt' = 2
             /\ pc = "polled" /\ pc' = "poll"
             /\ data.wpa_psk = "" /\ AllSix(data) /\ options.pixiemode
             /\ options'.pin \in RecoveredPins
             /\ ~options'.pixiemode
       ]_vars
    /\ [][attempt = 2 =>
             /\ options'.pin = options.pin
             /\ options'.pixiemode = options.pixiemode
             /\ pc = "polled" => pc' = "exited"
       ]_vars
    /\ [](attempt \in {1, 2})
    /\ [](exitcode = 0 => (pc = "exited" /\ data.wpa_psk # ""))

\* The second attempt has ended with a PSK and the run has exited with
\* status 0, with the pin of pixiewps in the options and pixie mode off.
C27_Witness ==
    /\ attempt = 2 /\ pc = "exited" /\ exitcode = 0
    /\ data.wpa_psk # ""
    /\ options.pin = "48563710" /\ ~options.pixiemode

====
